---- MODULE Spec2Model ----
(***************************************************************************)
(* Model of the batch-bump per-repository task orchestrator:               *)
(*   src/batch/batch.js   handleRepos / handleExec / finishAndExit         *)
(*   src/processRepo.js   processRepo                                      *)
(*   src/sync.js          main                                             *)
(*   src/unnamed/part_005 utils (getRepoInfo, checkResults, ...)           *)
(*                                                                         *)
(* One action is one continuation of a task: the code that runs between    *)
(* the completion of one awaited external command and the next await (or   *)
(* the task's settlement).  JavaScript runs each such continuation to      *)
(* completion, so it is atomic.  Promise continuations that need no        *)
(* external event (admission by the limiter, the finally block after       *)
(* Promise.all) run before any further command completion is delivered.    *)
(***************************************************************************)
EXTENDS Integers, Sequences, FiniteSets, TLC

VARIABLES
    mode,        \* "install" | "uninstall" | "exec" | "sync" | "unit"
    opts,        \* [dryRun, skipPush, parallel, verbose, branch]
    selected,    \* the selected repository descriptors, in order
    env,         \* what the environment of this run can answer (fixed per run)
    refs,        \* per task: the refs of the git repository its git commands run in
    queue,       \* the limiter's queue of task indices not yet admitted
    activeCount, \* the limiter's count of admitted, unsettled tasks
    pc,          \* per task: where its async function stands
    log,         \* per task: processRepo's log buffer
    cmds,        \* per task: history of the operations it issued, with their directory
    writes,      \* per task: its fs.writeFileSync calls, [file, ok], in order
    results,     \* the shared result list
    bar,         \* the progress bar's value
    phase,       \* "starting" | "running" | "finished" | "exited"
    summary,     \* what printSummary was given, one entry per call
    scheduled,   \* exit codes scheduled with setImmediate, in order
    uncaught,    \* TRUE when the command handler's promise rejected
    exitCode,    \* the process exit code, NoExit before exit
    unitIn,      \* pure-function checks: the input
    unitOut,     \* pure-function checks: the output
    config       \* what the handler finds: repos.json, its argument and --only

vars == <<mode, opts, selected, env, refs, queue, activeCount, pc, log, cmds, writes,
          results, bar, phase, summary, scheduled, uncaught, exitCode, unitIn, unitOut,
          config>>

-----------------------------------------------------------------------------
(* Bounds of the model *)

\* the largest number of selected repositories of a run
MaxRepos == 2

\* the longest result list given to checkResults on its own
MaxResults == 3

\* the largest number of repositories of a run that fills the limiter
MaxQueued == 6

\* the longest --only value, in fragments
MaxOnly == 4

-----------------------------------------------------------------------------
(* JavaScript values *)

UNDEF == "<undefined>"

NoExit == "none"

\* an undefined text (texts are sequences of words)
NOTEXT == <<"<undefined>">>

\* booleans stored in a record property that may also be undefined
JsTrue == "true"
JsFalse == "false"

Truthy(v) == v \notin {UNDEF, "", JsFalse}

\* a || b
Or(a, b) == IF Truthy(a) THEN a ELSE b

\* text.includes(phrase), texts being sequences of words
Includes(text, phrase) ==
    \E k \in 0..(Len(text) - Len(phrase)) :
        \A j \in 1..Len(phrase) : text[k + j] = phrase[j]

\* text.split("\n")[0]
RECURSIVE FirstLine(_)
FirstLine(text) ==
    IF text = <<>> \/ Head(text) = "\n" THEN <<>>
    ELSE <<Head(text)>> \o FirstLine(Tail(text))

-----------------------------------------------------------------------------
(* Configuration: repos.json and the command line *)

basePath == "/base"

\* Repository descriptors a repos.json can hold: name and path, the path
\* different from the name; name only; name and branch; path only.
Catalog ==
    << [name |-> "lib", path |-> "pkgs/core", branch |-> UNDEF],
       [name |-> "web", path |-> UNDEF,       branch |-> UNDEF],
       [name |-> "api", path |-> UNDEF,       branch |-> "feat/x"],
       [name |-> UNDEF, path |-> "tools",     branch |-> UNDEF] >>

\* the repository lists of the runs: n descriptors of the catalog, taken in
\* its order from any starting point
Fleet(n, start) == [i \in 1..n |-> Catalog[((start + i - 2) % Len(Catalog)) + 1]]

Fleets(maxLen) == {Fleet(n, start) : n \in 1..maxLen, start \in 1..Len(Catalog)}

\* n repositories of one kind, each with a name of its own and a branch
ServiceFleet(n) ==
    [i \in 1..n |-> [name |-> "svc" \o ToString(i), path |-> UNDEF, branch |-> "feat/x"]]

\* two descriptors that share a name and differ in path; loadConfig accepts
\* any list of repositories
TwinFleet ==
    << [name |-> "app", path |-> "team-a/app", branch |-> UNDEF],
       [name |-> "app", path |-> "team-b/app", branch |-> UNDEF] >>

\* the lists a repos.json can hold, the empty list included
RepoListsOf(maxLen) == {<<>>} \cup Fleets(maxLen)

ServiceFleets(maxLen) == {ServiceFleet(n) : n \in 1..maxLen}

\* sync's --branch and --remote, at their defaults
syncBranch == "main"
syncRemote == "origin"

\* a branch name given with --branch, the one the descriptors of the catalog
\* name
FeatureBranch == "feat/x"

\* the flags of a command; --skip-push exists for install and remove only.
\* --verbose changes what install, remove and exec print and whether they
\* report progress; in sync it also adds a command, so sync runs take both.
\* --branch exists for sync only.
OptsOf(m) ==
    [dryRun : BOOLEAN,
     skipPush : IF m \in {"install", "uninstall"} THEN BOOLEAN ELSE {FALSE},
     parallel : BOOLEAN,
     verbose : IF m = "sync" THEN BOOLEAN ELSE {FALSE},
     branch : IF m = "sync" THEN {syncBranch, FeatureBranch} ELSE {UNDEF}]

\* path.resolve(basePath, segment) for a relative segment
Resolve(base, segment) == base \o "/" \o segment

\* JSON.stringify(repo) of a descriptor with neither name nor path
Stringify(repo) == "{\"branch\":\"" \o repo.branch \o "\"}"

getRepoInfo(repo, base) ==
    LET repoName == Or(repo.name, Or(repo.path, Stringify(repo)))
    IN  [repoName |-> repoName,
         repoPath |-> Resolve(base, Or(repo.path, Or(repo.name, repoName)))]

Tasks == 1..Len(selected)

RepoName(i) == getRepoInfo(selected[i], basePath).repoName
RepoPath(i) == getRepoInfo(selected[i], basePath).repoPath

-----------------------------------------------------------------------------
(* Outcome records.  A property the code does not set is UNDEF. *)

STATUS_ERROR   == <<"x", "Error">>
STATUS_SUCCESS == <<"ok", "Success">>
STATUS_SKIPPED == <<"!", "Skipped">>
STATUS_DRYRUN  == <<"v", "DRY", "RUN">>

\* { name, status, message }: handleExec and processRepo
StatusRecord(i, name, status, message) ==
    [task |-> i, name |-> name, status |-> status, message |-> message,
     repo |-> UNDEF, ok |-> UNDEF, error |-> NOTEXT, dryRun |-> UNDEF, info |-> NOTEXT, cmds |-> NOTEXT]

\* { repo, ok: false, error }: handleRepos and sync
FailRecord(i, repo, error) ==
    [task |-> i, name |-> UNDEF, status |-> NOTEXT, message |-> NOTEXT,
     repo |-> repo, ok |-> JsFalse, error |-> error, dryRun |-> UNDEF, info |-> NOTEXT, cmds |-> NOTEXT]

\* { repo, ok: true, dryRun?, info? }: handleRepos and sync
OkRecord(i, repo, dryRun, info) ==
    [task |-> i, name |-> UNDEF, status |-> NOTEXT, message |-> NOTEXT,
     repo |-> repo, ok |-> JsTrue, error |-> NOTEXT, dryRun |-> dryRun, info |-> info, cmds |-> NOTEXT]

-----------------------------------------------------------------------------
(* utils: checkResults *)

\* the two failCheck callbacks of the code base
FailChecks == {"statusError", "notOk"}

\* (r) => r.status.includes("Error") raises a TypeError when r.status is undefined
FailCheckThrows(kind, r) == kind = "statusError" /\ r.status = NOTEXT

FailCheck(kind, r) ==
    IF kind = "statusError" THEN Includes(r.status, <<"Error">>)
    ELSE ~Truthy(r.ok)

\* results.filter(failCheck)
RECURSIVE Filter(_, _)
Filter(rs, kind) ==
    IF rs = <<>> THEN <<>>
    ELSE IF FailCheck(kind, Head(rs)) THEN <<Head(rs)>> \o Filter(Tail(rs), kind)
         ELSE Filter(Tail(rs), kind)

\* a variant that reports failures with exit code 1
ExitCodeOfGeneric(failed) == IF Len(failed) # 0 THEN 1 ELSE 0

\* failed.length ? 2 : 0
ExitCodeOf(failed) == IF Len(failed) # 0 THEN 2 ELSE 0

checkResults(rs, kind) ==
    LET failed == Filter(rs, kind)
    IN  [failed |-> failed, exitCode |-> ExitCodeOf(failed)]

checkResultsThrows(rs, kind) == \E k \in 1..Len(rs) : FailCheckThrows(kind, rs[k])

-----------------------------------------------------------------------------
(* utils: runCmd, src/unnamed/part_005 13-27, and its copy in src/sync.js 112-124 *)

\* a || b for texts
OrText(a, b) == IF a = NOTEXT \/ a = <<>> THEN b ELSE a

\* the code of an error that has none (a child killed by a signal has code null)
NoCode == "null"

MAXBUFFER == "ERR_CHILD_PROCESS_STDIO_MAXBUFFER"

\* How a child process can end: it exits with a status; a signal kills it;
\* its output exceeds maxBuffer and it is killed; it cannot be spawned; or
\* exec itself throws on its arguments.  stdout and stderr are what it wrote.
ChildOf(kind, code, stdout, stderr) ==
    [kind |-> kind, code |-> code, stdout |-> stdout, stderr |-> stderr]

\* the message of the error of a failed child
ChildMessage(cmd, child) ==
    IF child.kind = "throw" THEN <<"The", "argument", "is", "invalid">>
    ELSE IF child.kind = "spawn" THEN <<"spawn", "/bin/sh", "ENOENT">>
    ELSE IF child.kind = "overflow" THEN <<"stdout", "maxBuffer", "length", "exceeded">>
    ELSE <<"Command", "failed:", cmd>> \o (IF child.stderr = <<>> THEN <<>> ELSE <<"\n">> \o child.stderr)

\* execP(cmd, opts): the promise fulfils with { stdout, stderr } when the
\* child exits with status 0; otherwise it rejects with an error that carries
\* code, stdout and stderr; an error thrown by exec carries neither output
execP(cmd, child) ==
    IF child.kind = "exit" /\ child.code = "0"
    THEN [settled |-> "fulfilled", stdout |-> child.stdout, stderr |-> child.stderr,
          code |-> UNDEF, message |-> NOTEXT]
    ELSE IF child.kind = "throw"
    THEN [settled |-> "thrown", stdout |-> NOTEXT, stderr |-> NOTEXT,
          code |-> "ERR_INVALID_ARG_TYPE", message |-> ChildMessage(cmd, child)]
    ELSE [settled |-> "rejected", stdout |-> child.stdout, stderr |-> child.stderr,
          code |-> child.code, message |-> ChildMessage(cmd, child)]

\* a variant whose try block does not cover an error thrown by exec
runCmdUnguarded(cmd, child, copy) ==
    LET r == execP(cmd, child)
    IN  IF r.settled = "fulfilled"
        THEN [raised |-> FALSE, ok |-> TRUE, stdout |-> OrText(r.stdout, <<>>),
              stderr |-> OrText(r.stderr, <<>>), error |-> NOTEXT, code |-> UNDEF]
        ELSE [raised |-> r.settled = "thrown", ok |-> FALSE, stdout |-> OrText(r.stdout, <<>>),
              stderr |-> IF copy = "utils" THEN OrText(r.stderr, <<>>) ELSE NOTEXT,
              error |-> OrText(r.stderr, r.message),
              code |-> IF copy = "utils" THEN r.code ELSE UNDEF]

\* runCmd(cmd, execOpts) of the utilities (copy = "utils") and of sync
\* (copy = "sync", whose failure record has neither stderr nor code): the
\* call of execP and its await are inside the try block
runCmd(cmd, child, copy) ==
    LET r == execP(cmd, child)
    IN  IF r.settled = "fulfilled"
        THEN [raised |-> FALSE, ok |-> TRUE, stdout |-> OrText(r.stdout, <<>>),
              stderr |-> OrText(r.stderr, <<>>), error |-> NOTEXT, code |-> UNDEF]
        ELSE [raised |-> FALSE, ok |-> FALSE, stdout |-> OrText(r.stdout, <<>>),
              stderr |-> IF copy = "utils" THEN OrText(r.stderr, <<>>) ELSE NOTEXT,
              error |-> OrText(r.stderr, r.message),
              code |-> IF copy = "utils" THEN r.code ELSE UNDEF]

-----------------------------------------------------------------------------
(* utils: loadConfig, src/unnamed/part_005 35-64 *)

\* What a handler finds when it starts: repos.json (unreadable, not JSON, or
\* parsed, with its basePath and its repositories; a missing repositories key
\* reads as the empty list), whether the command's argument is non-empty, and
\* the value of --only.
ConfigOf(file, base, repositories, argument, only) ==
    [file |-> file, basePath |-> base, repositories |-> repositories,
     argument |-> argument, only |-> only]

\* the configuration of a run whose handler has already selected its repositories
Loaded(repositories) == ConfigOf("parsed", basePath, repositories, TRUE, NOTEXT)

\* what loadConfig returns, or the code of the error it throws
loadConfig(cfg) ==
    IF cfg.file = "unreadable"
    THEN [threw |-> "CONFIG_READ_ERROR", repos |-> <<>>]
    ELSE IF cfg.file = "invalid"
    THEN [threw |-> "CONFIG_PARSE_ERROR", repos |-> <<>>]
    ELSE IF ~Truthy(cfg.basePath)
    THEN [threw |-> "CONFIG_MISSING_BASEPATH", repos |-> <<>>]
    ELSE [threw |-> "none", repos |-> cfg.repositories]

-----------------------------------------------------------------------------
(* utils: filterRepos, src/unnamed/part_005 72-101 *)

\* The value of --only is a text: a sequence of fragments, each a name, a
\* comma or a blank.  An option that was not given is NOTEXT, an empty value
\* is <<>>.
Comma == ","
Blank == " "

\* !only
NotGiven(only) == only = NOTEXT \/ only = <<>>

\* text.split(",")
RECURSIVE Split(_)
Split(text) ==
    IF \A k \in 1..Len(text) : text[k] # Comma
    THEN <<text>>
    ELSE LET k == CHOOSE n \in 1..Len(text) :
                      text[n] = Comma /\ \A m \in 1..(n - 1) : text[m] # Comma
         IN  <<SubSeq(text, 1, k - 1)>> \o Split(SubSeq(text, k + 1, Len(text)))

\* s.trim()
RECURSIVE Trim(_)
Trim(text) ==
    IF text = <<>> THEN text
    ELSE IF text[1] = Blank THEN Trim(Tail(text))
    ELSE IF text[Len(text)] = Blank THEN Trim(SubSeq(text, 1, Len(text) - 1))
    ELSE text

IsNonEmpty(text) == text # <<>>

\* String(only).split(",").map((s) => s.trim()).filter(Boolean)
OnlyList(only) ==
    LET parts == Split(only)
    IN  SelectSeq([k \in 1..Len(parts) |-> Trim(parts[k])], IsNonEmpty)

\* list.includes(value) for a name or path of a descriptor
ListIncludes(list, value) ==
    value # UNDEF /\ \E k \in 1..Len(list) : list[k] = <<value>>

\* new Set(matched.map((r) => r.name || r.path))
FoundNames(matched) == {<<Or(matched[k].name, matched[k].path)>> : k \in 1..Len(matched)}

\* onlyList.includes(r.name) || onlyList.includes(r.path)
IsSelected(r, onlyList) == ListIncludes(onlyList, r.name) \/ ListIncludes(onlyList, r.path)

\* what filterRepos returns, or the code of the error it throws
filterRepos(repos, only) ==
    IF NotGiven(only)
    THEN [threw |-> "none", matched |-> repos, unknown |-> <<>>]
    ELSE LET onlyList == OnlyList(only)
             Test(r) == IsSelected(r, onlyList)
             matched == SelectSeq(repos, Test)
             found == FoundNames(matched)
             NotFound(n) == n \notin found
             unknown == SelectSeq(onlyList, NotFound)
         IN  IF onlyList = <<>>
             THEN [threw |-> "FILTER_EMPTY", matched |-> <<>>, unknown |-> <<>>]
             ELSE IF matched = <<>>
             THEN [threw |-> "FILTER_NO_MATCH", matched |-> <<>>, unknown |-> <<>>]
             ELSE [threw |-> "none", matched |-> matched, unknown |-> unknown]

-----------------------------------------------------------------------------
(* The concurrency limiter: pLimit(concurrentCount) and limit(fn) *)

\* a variant with one more slot in parallel mode
ConcurrentCountWide(parallel) == IF parallel THEN 6 ELSE 1

\* parallel ? 5 : 1
ConcurrentCount(parallel) == IF parallel THEN 5 ELSE 1

\* a variant that hands the repositories to the limiter last to first
EnqueuedReversed(repos) == [k \in 1..Len(repos) |-> Len(repos) + 1 - k]

\* selected.map((repo) => limit(...)): one limit call per repository, in the
\* order of the selected list; each call appends its task to the queue
Enqueued(repos) == [k \in 1..Len(repos) |-> k]

\* the queue is first in, first out
NextQueued(q) == Head(q)

Dequeue(q) == SelectSeq(q, LAMBDA t : t # NextQueued(q))

IsSettled(p) == p \in {"fulfilled", "rejected"}

\* the place of task i in the order of the limit calls
Position(i) == CHOOSE k \in 1..Len(selected) : Enqueued(selected)[k] = i

Running == {i \in Tasks : pc[i] \notin {"queued", "fulfilled", "rejected"}}

DispatchPending ==
    queue # <<>> /\ activeCount < ConcurrentCount(opts.parallel)

AllSettled == \A i \in Tasks : IsSettled(pc[i])
AnyRejected == \E i \in Tasks : pc[i] = "rejected"

\* Promise.all(tasks) has settled and the finally block has not run yet
FinishPending == phase = "running" /\ (AllSettled \/ AnyRejected)

\* no promise continuation is runnable: the event loop delivers the next
\* command completion
Quiet ==
    /\ phase \in {"running", "finished"}
    /\ ~DispatchPending
    /\ ~FinishPending
    /\ \A i \in Tasks : pc[i] # "admitted"

\* an admitted task's function is called; the limiter calls the functions in
\* the order in which it admitted the tasks
Startable(i) ==
    /\ phase \in {"running", "finished"}
    /\ ~DispatchPending
    /\ pc[i] = "admitted"
    /\ \A j \in Tasks : pc[j] = "admitted" => Position(i) <= Position(j)

\* the limiter's state after task i moved to newPc; a settled task frees its
\* slot and the limiter hands it to the next queued task at once
LimiterAfter(i, newPc) ==
    IF IsSettled(newPc) /\ queue # <<>>
    THEN [pc |-> [pc EXCEPT ![i] = newPc, ![NextQueued(queue)] = "admitted"],
          queue |-> Dequeue(queue), activeCount |-> activeCount]
    ELSE [pc |-> [pc EXCEPT ![i] = newPc], queue |-> queue,
          activeCount |-> IF IsSettled(newPc) THEN activeCount - 1 ELSE activeCount]

\* the first admissions, while slots are free
Dispatch ==
    /\ phase = "running"
    /\ DispatchPending
    /\ pc' = [pc EXCEPT ![NextQueued(queue)] = "admitted"]
    /\ queue' = Dequeue(queue)
    /\ activeCount' = activeCount + 1
    /\ UNCHANGED <<mode, opts, selected, env, refs, log, cmds, writes, results, bar, phase,
                   summary, scheduled, uncaught, exitCode, unitIn, unitOut, config>>

-----------------------------------------------------------------------------
(* Bookkeeping of one task continuation *)

Issue(c, op, dir) == Append(c, [op |-> op, dir |-> dir, res |-> "pending"])
Done(c, r) == [c EXCEPT ![Len(c)].res = r]
Did(c, op, dir, r) == Append(c, [op |-> op, dir |-> dir, res |-> r])

\* fs.writeFileSync(file, ...) returned, or raised
Wrote(w, file) == Append(w, [file |-> file, ok |-> TRUE])
WriteThrew(w, file) == Append(w, [file |-> file, ok |-> FALSE])

\* task i continues: its pc, its log buffer, its command history, the files
\* it wrote, the records it appended, the progress it reported and the refs
\* of its repository
ContinueGit(i, newPc, newLog, newCmds, newWrites, newRecords, increments, newRefs) ==
    LET lim == LimiterAfter(i, newPc)
    IN  /\ pc' = lim.pc
        /\ queue' = lim.queue
        /\ activeCount' = lim.activeCount
        /\ log' = [log EXCEPT ![i] = newLog]
        /\ cmds' = [cmds EXCEPT ![i] = newCmds]
        /\ writes' = [writes EXCEPT ![i] = newWrites]
        /\ results' = results \o newRecords
        /\ bar' = bar + increments
        /\ refs' = [refs EXCEPT ![i] = newRefs]
        /\ UNCHANGED <<mode, opts, selected, env, phase, summary, scheduled, uncaught,
                       exitCode, unitIn, unitOut, config>>

\* a continuation that leaves the refs of the task's repository as they are
Continue(i, newPc, newLog, newCmds, newWrites, newRecords, increments) ==
    ContinueGit(i, newPc, newLog, newCmds, newWrites, newRecords, increments, refs[i])

\* if (!verbose) bar.increment()
QuietIncrement == IF opts.verbose THEN 0 ELSE 1


-----------------------------------------------------------------------------
(* The refs of a git repository, and what the git commands do to them *)

\* A commit is the sequence of the changes it contains; <<>> is no commit.
NoCommit == <<>>

\* local main before the run, and main on the remote, which is ahead of it
LocalMain == <<"m0">>
RemoteMain == <<"m0", "m1">>

\* the expected branch where it exists locally, and where the remote has it
LocalBranch == <<"m0", "b0">>
RemoteBranch == <<"m0", "r0">>

\* a third branch the work tree can be on
OtherBranch == <<"m0", "o0">>

\* The repository at the start of a task: the expected branch absent or
\* present, with main, the expected branch or a third branch checked out,
\* or the branch name existing as a tag only.
RefKinds ==
    {"absent, on main", "absent, on other", "present, on main", "present, checked out",
     "tag only, on main"}

\* kind: how the repository started (kept for reference, never changed);
\* cur: the branch checked out ("main", "branch" for the expected branch, or
\* "other"); main, branch, other: the local heads; tag: a tag with the
\* branch's name; originMain, originBranch: the remote-tracking refs;
\* upstream: the expected branch tracks origin's; remoteBranch: the branch the
\* remote held when the run began, which a fetch brings
RefsOf(kind, remoteHas) ==
    [kind |-> kind,
     cur |-> IF kind = "present, checked out" THEN "branch"
             ELSE IF kind = "absent, on other" THEN "other" ELSE "main",
     main |-> LocalMain,
     branch |-> IF kind \in {"present, on main", "present, checked out"}
                THEN LocalBranch ELSE NoCommit,
     other |-> OtherBranch,
     tag |-> kind = "tag only, on main",
     originMain |-> LocalMain,
     originBranch |-> NoCommit,
     upstream |-> FALSE,
     remoteBranch |-> IF remoteHas THEN RemoteBranch ELSE NoCommit]

\* the repository as it was at the start of the run
StartOf(r) == RefsOf(r.kind, r.remoteBranch # NoCommit)

\* HEAD
HeadCommit(r) ==
    IF r.cur = "main" THEN r.main ELSE IF r.cur = "branch" THEN r.branch ELSE r.other

\* a variant of the local check that never finds the branch
ShowRefBlind(r) == "failed"

\* git show-ref --verify --quiet refs/heads/<branch>
ShowRef(r) == IF r.branch # NoCommit THEN "ok" ELSE "failed"

\* git rev-parse --verify <branch>: any ref of that name, a tag included
RevParse(r) == IF r.branch # NoCommit \/ r.tag THEN "ok" ELSE "failed"

\* git fetch origin
Fetched(r) == [r EXCEPT !.originMain = RemoteMain, !.originBranch = r.remoteBranch]

\* git fetch origin main
FetchedMain(r) == [r EXCEPT !.originMain = RemoteMain]

\* git branch --force main origin/main: git refuses to move the branch that
\* is checked out
BranchForce(r) == IF r.cur # "main" THEN "ok" ELSE "failed"

BranchForced(r) == [r EXCEPT !.main = r.originMain]

\* git checkout --no-track -b <branch> main
CheckedOutNew(r) == [r EXCEPT !.branch = r.main, !.cur = "branch", !.upstream = FALSE]

\* git checkout -B <branch>: the branch is created at HEAD, or reset to it
CheckedOutReset(r) == [r EXCEPT !.branch = HeadCommit(r), !.cur = "branch"]

\* the change a commit of the run adds
NewChange == "c"

\* git commit: the checked-out branch moves to the new commit
Committed(r) ==
    IF r.cur = "main" THEN [r EXCEPT !.main = Append(r.main, NewChange)]
    ELSE IF r.cur = "branch" THEN [r EXCEPT !.branch = Append(r.branch, NewChange)]
    ELSE [r EXCEPT !.other = Append(r.other, NewChange)]

\* git push origin <branch> --no-verify: the remote-tracking ref follows the
\* branch; no --set-upstream is passed, the tracking configuration stays
Pushed(r, branch) ==
    IF Truthy(branch) THEN [r EXCEPT !.originBranch = r.branch] ELSE r

\* The git commands of sync name the branch with --branch: main, or the branch
\* the refs keep as the expected branch.

\* refs/heads/<branch>
LocalHead(r, branch) == IF branch = syncBranch THEN r.main ELSE r.branch

\* refs/remotes/origin/<branch>
TrackingHead(r, branch) == IF branch = syncBranch THEN r.originMain ELSE r.originBranch

\* the branch on the remote
RemoteHead(r, branch) == IF branch = syncBranch THEN RemoteMain ELSE r.remoteBranch

\* the local branches of the repository
LocalBranches(r) ==
    {"main", "other"} \cup (IF r.branch # NoCommit THEN {FeatureBranch} ELSE {})

\* git checkout <branch> can succeed when the local branch exists, and also
\* when it does not while origin has a remote-tracking branch of that name
CanCheckout(r, branch) ==
    LocalHead(r, branch) # NoCommit \/ TrackingHead(r, branch) # NoCommit

\* git checkout <branch>: the local branch is checked out; a branch that is
\* absent locally is created from origin/<branch>, tracking it, and checked out
CheckedOut(r, branch) ==
    IF branch = syncBranch THEN [r EXCEPT !.cur = "main"]
    ELSE IF r.branch # NoCommit THEN [r EXCEPT !.cur = "branch"]
    ELSE [r EXCEPT !.branch = r.originBranch, !.cur = "branch", !.upstream = TRUE]

\* the changes of both histories, those of the first in their order first
Merged(a, b) == a \o SelectSeq(b, LAMBDA c : \A k \in 1..Len(a) : a[k] # c)

\* git pull origin <branch> needs the branch on the remote
CanPull(r, branch) == RemoteHead(r, branch) # NoCommit

\* git pull origin <branch>: the remote's branch is fetched and merged into
\* the branch that is checked out
Pulled(r, branch) ==
    LET head == Merged(HeadCommit(r), RemoteHead(r, branch))
    IN  IF r.cur = "main" THEN [r EXCEPT !.main = head]
        ELSE IF r.cur = "branch" THEN [r EXCEPT !.branch = head]
        ELSE [r EXCEPT !.other = head]

-----------------------------------------------------------------------------
(* handleExec: one task, src/batch/batch.js 346-404 *)

\* the command line's command, commandParts.join(" ")
execCommand == "make"

\* logsDir of ensureLogsDir
logsDir == "/app/logs"

ExecLogFile(i) == Resolve(logsDir, RepoName(i) \o "-exec.log")

\* what the environment can answer to one external command
CmdResults == {"ok", "failed"}

\* res.error?.split("\n")[0] || "Command failed"
ExecErrorLine(res) == OrText(FirstLine(res.error), <<"Command", "failed">>)

\* how the command of an exec task can end, for the answers and the endings
\* the environment allows: exit status 0, a non-zero exit status, a signal,
\* output overflow
ExecChildren(environment) ==
    {ch \in {ChildOf("exit", "0", <<"some", "output">>, <<>>),
             ChildOf("exit", "2", <<>>, <<"some", "output">>),
             ChildOf("signal", NoCode, <<>>, <<>>),
             ChildOf("overflow", MAXBUFFER, <<"some", "output">>, <<>>)} :
        /\ (IF ch.kind = "exit" /\ ch.code = "0" THEN "ok" ELSE "failed")
               \in environment.results
        /\ ch.kind \in environment.endings}

\* what the command's end was, for the history: its exit status, or how it
\* ended without one
ExitStatusOf(child) == IF child.kind = "exit" THEN child.code ELSE child.kind

\* result.ok ? 0 : result.code || 1
LoggedExitCode(res) ==
    IF res.ok THEN "0"
    ELSE IF res.code \in {UNDEF, NoCode, "0", ""} THEN "1" ELSE res.code

\* generateExecLogContent(command, directory, result), line by line
generateExecLogContent(command, directory, res) ==
    <<"Command: " \o command,
      "Directory: " \o directory,
      "Exit code: " \o LoggedExitCode(res),
      "",
      "--- stdout ---",
      IF res.stdout = <<>> THEN "(empty)" ELSE "(stdout)",
      "",
      "--- stderr ---",
      IF res.stderr = <<>> THEN "(empty)" ELSE "(stderr)">>

\* from admission to the first await: path check, dry run, runCmd issued
ExecStart(i) ==
    /\ mode = "exec"
    /\ Startable(i)
    /\ \E exists \in env.exists :
        LET checked == Did(cmds[i], "existsSync", RepoPath(i),
                           IF exists THEN "ok" ELSE "failed")
        IN  IF ~exists
            THEN Continue(i, "fulfilled", log[i], checked, writes[i],
                          <<StatusRecord(i, RepoName(i), STATUS_ERROR,
                                         <<"Path", "not", "found:", RepoPath(i)>>)>>,
                          QuietIncrement)
            ELSE IF opts.dryRun
            THEN Continue(i, "fulfilled", log[i], checked, writes[i],
                          <<StatusRecord(i, RepoName(i), STATUS_DRYRUN,
                                         <<"Would", "execute:", execCommand>>)>>,
                          QuietIncrement)
            ELSE Continue(i, "exec_runCmd", log[i],
                          Issue(checked, "exec", RepoPath(i)),
                          writes[i], <<>>, 0)

\* the outcome of an exec task, from res.ok
ExecOutcome(i, res) ==
    IF res.ok
    THEN StatusRecord(i, RepoName(i), STATUS_SUCCESS,
                      <<"Executed", "successfully", "(log:", ExecLogFile(i)>>)
    ELSE StatusRecord(i, RepoName(i), STATUS_ERROR,
                      ExecErrorLine(res) \o <<"(log:", ExecLogFile(i)>>)

\* runCmd returned: the log content is generated and the log file is written,
\* then the outcome is recorded.  fs.writeFileSync is outside any try block:
\* when it throws, the task's promise rejects and nothing is recorded.  The
\* history keeps how the command ended; log[i] keeps the content handed to
\* fs.writeFileSync.
ExecCmdReturned(i) ==
    /\ mode = "exec"
    /\ Quiet
    /\ pc[i] = "exec_runCmd"
    /\ \E child \in ExecChildren(env), written \in env.written :
        LET res == runCmd(execCommand, child, "utils")
            done == Append(Done(cmds[i], IF res.ok THEN "ok" ELSE "failed"),
                           [op |-> "exit status", dir |-> RepoPath(i),
                            res |-> ExitStatusOf(child)])
            content == generateExecLogContent(execCommand, RepoPath(i), res)
        IN  IF ~written
            THEN Continue(i, "rejected", content, done,
                          WriteThrew(writes[i], ExecLogFile(i)), <<>>, 0)
            ELSE Continue(i, "fulfilled", content, done,
                          Wrote(writes[i], ExecLogFile(i)),
                          <<ExecOutcome(i, res)>>,
                          QuietIncrement)

-----------------------------------------------------------------------------
(* processRepo, src/processRepo.js *)

\* processRepo resolves its own directory from repo.name
ProcessRepoPath(i) == Resolve(basePath, selected[i].name)

PrLogFile(i) == Resolve(logsDir, selected[i].name \o ".log")

\* path.basename(file)
PrLogBase(i) == selected[i].name \o ".log"

\* error texts; "\n" separates lines
WriteErrorText == <<"ENOENT:", "no", "such", "file", "or", "directory">>
PathTypeErrorText == <<"The", "paths[1]", "argument", "must", "be", "of", "type", "string">>
NoDirErrorText == <<"Cannot", "use", "simple-git", "on", "a", "directory", "that", "does", "not", "exist">>
CmdErrorText(op) == <<"Command", "failed:", op, "\n", "stderr">>

\* what a failing git commit can report
CommitFailures ==
    { <<"On", "branch", "feat/x", "\n", "nothing", "to", "commit", ",", "working", "tree", "clean">>,
      <<"no", "changes", "added", "to", "commit", "(use", "git", "add)">>,
      <<"nothing", "added", "to", "commit", "but", "untracked", "files", "present">> }

\* a variant of the rule that knows the first phrase only
isBenignNothingToCommit(message) ==
    Includes(message, <<"nothing", "to", "commit">>)

\* the benign-failure rule of the commit step
isBenignCommitFailure(message) ==
    \/ Includes(message, <<"nothing", "to", "commit">>)
    \/ Includes(message, <<"no", "changes", "added", "to", "commit">>)

\* what the stale-lock cleanup can find: no lock, a lock it removes, a lock
\* whose removal fails (reported, not raised)
LockStates == {"none", "removed", "stuck"}

\* a variant of the task boundary that records nothing
BoundaryCatchSilent(i, errText, lg, c, w, increments, g) ==
    ContinueGit(i, "fulfilled", lg, c, w, <<>>, increments, g)

\* the catch block of handleRepos around processRepo (the task boundary)
BoundaryCatch(i, errText, lg, c, w, increments, g) ==
    ContinueGit(i, "fulfilled", lg, c, w,
                <<FailRecord(i, RepoName(i), errText)>>, increments, g)

\* a variant of the catch block that records the Error outcome and writes no log
PrCatchUnlogged(i, errText, lg, c, w, increments, g) ==
    ContinueGit(i, "fulfilled", lg, c, w,
                <<StatusRecord(i, selected[i].name, STATUS_ERROR,
                               FirstLine(errText) \o <<"(log:", PrLogBase(i)>>)>>,
                increments, g)

\* the catch block of processRepo: the log is written, then the Error outcome
\* is recorded; a writeLog that throws leaves processRepo rejected
PrCatch(i, errText, lg, c, w, increments, g) ==
    \E written \in env.written :
        IF written
        THEN ContinueGit(i, "fulfilled", lg, c, Wrote(w, PrLogFile(i)),
                         <<StatusRecord(i, selected[i].name, STATUS_ERROR,
                                        FirstLine(errText) \o <<"(log:", PrLogBase(i)>>)>>,
                         increments, g)
        ELSE BoundaryCatch(i, WriteErrorText, lg, c, WriteThrew(w, PrLogFile(i)), increments, g)

\* the benign branch of the commit step: writeLog, then the Skipped outcome
PrSkipped(i, lg, c) ==
    \E written \in env.written :
        IF written
        THEN Continue(i, "fulfilled", lg, c, Wrote(writes[i], PrLogFile(i)),
                      <<StatusRecord(i, selected[i].name, STATUS_SKIPPED,
                                     <<"No", "changes", "to", "commit", "(log:", PrLogBase(i)>>)>>,
                      0)
        ELSE PrCatch(i, WriteErrorText, lg, c, WriteThrew(writes[i], PrLogFile(i)), 0, refs[i])

\* the end of the try block: writeLog, then the Success outcome
PrSuccess(i, lg, c, g) ==
    \E written \in env.written :
        IF written
        THEN ContinueGit(i, "fulfilled", lg, c, Wrote(writes[i], PrLogFile(i)),
                         <<StatusRecord(i, selected[i].name, STATUS_SUCCESS,
                                        <<"Committed", "on", selected[i].branch,
                                          "(log:", PrLogBase(i)>>)>>,
                         0, g)
        ELSE PrCatch(i, WriteErrorText, lg, c, WriteThrew(writes[i], PrLogFile(i)), 0, g)

\* processRepo from its call to its first await.  path.resolve raises on an
\* undefined name and simpleGit raises on a directory that does not exist;
\* both leave processRepo rejected before bar.increment.
ProcessRepoEntry(i, c, g) ==
    IF selected[i].name = UNDEF
    THEN BoundaryCatch(i, PathTypeErrorText, log[i], c, writes[i], 0, g)
    ELSE \E dirExists \in (IF ProcessRepoPath(i) = RepoPath(i) THEN {TRUE} ELSE env.exists) :
        IF ~dirExists
        THEN BoundaryCatch(i, NoDirErrorText, log[i], c, writes[i], 0, g)
        ELSE IF opts.dryRun
        THEN ContinueGit(i, "fulfilled", log[i], c, writes[i],
                         <<StatusRecord(i, selected[i].name, STATUS_DRYRUN,
                                        <<"Would", mode, "on", "branch", selected[i].branch>>)>>,
                         1, g)
        ELSE \E lock \in env.lockStates :
            LET c2 == IF lock = "none" THEN c
                      ELSE Did(c, "unlink index.lock", ProcessRepoPath(i),
                               IF lock = "removed" THEN "ok" ELSE "failed")
            IN  IF Truthy(selected[i].branch)
                THEN ContinueGit(i, "pr_checkout", log[i],
                                 Issue(c2, "git checkout -B", ProcessRepoPath(i)),
                                 writes[i], <<>>, 1, g)
                ELSE ContinueGit(i, "pr_npm", log[i],
                                 Issue(c2, "npm", ProcessRepoPath(i)),
                                 writes[i], <<>>, 1, g)

PrCheckoutReturned(i) ==
    /\ Quiet
    /\ pc[i] = "pr_checkout"
    /\ \E res \in env.results :
        IF res = "ok"
        THEN ContinueGit(i, "pr_npm", Append(log[i], "$ git checkout -B"),
                         Issue(Done(cmds[i], res), "npm", ProcessRepoPath(i)),
                         writes[i], <<>>, 0, CheckedOutReset(refs[i]))
        ELSE PrCatch(i, CmdErrorText("git checkout -B"), log[i], Done(cmds[i], res), writes[i], 0,
                     refs[i])

\* a variant that goes on to git add whatever npm returned
PrNpmReturnedLenient(i) ==
    /\ Quiet
    /\ pc[i] = "pr_npm"
    /\ \E res \in env.results :
        Continue(i, "pr_add", Append(log[i], "$ npm " \o mode),
                 Issue(Done(cmds[i], res), "git add", ProcessRepoPath(i)),
                 writes[i], <<>>, 0)

PrNpmReturned(i) ==
    /\ Quiet
    /\ pc[i] = "pr_npm"
    /\ \E res \in env.results :
        LET lg == Append(log[i], "$ npm " \o mode)
        IN  IF res = "ok"
            THEN Continue(i, "pr_add", lg,
                          Issue(Done(cmds[i], res), "git add", ProcessRepoPath(i)),
                          writes[i], <<>>, 0)
            ELSE PrCatch(i, CmdErrorText("npm"), lg, Done(cmds[i], res), writes[i], 0, refs[i])

PrAddReturned(i) ==
    /\ Quiet
    /\ pc[i] = "pr_add"
    /\ \E res \in env.results :
        IF res = "ok"
        THEN Continue(i, "pr_commit",
                      Append(log[i], "$ git add package.json package-lock.json"),
                      Issue(Done(cmds[i], res), "git commit", ProcessRepoPath(i)),
                      writes[i], <<>>, 0)
        ELSE PrCatch(i, CmdErrorText("git add"), log[i], Done(cmds[i], res), writes[i], 0, refs[i])

\* a variant that pushes whether or not --skip-push was given
PrCommitReturnedPushing(i) ==
    /\ Quiet
    /\ pc[i] = "pr_commit"
    /\ \/ LET lg == Append(log[i], "$ git commit --no-verify")
              c == Done(cmds[i], "ok")
          IN  /\ "ok" \in env.results
              /\ ContinueGit(i, "pr_push", lg, Issue(c, "git push", ProcessRepoPath(i)),
                             writes[i], <<>>, 0, Committed(refs[i]))
       \/ \E message \in (IF "failed" \in env.results THEN CommitFailures ELSE {}) :
            LET c == Append(Done(cmds[i], "failed"),
                            [op |-> "commit failure", dir |-> ProcessRepoPath(i),
                             res |-> message])
            IN  IF isBenignCommitFailure(message)
                THEN PrSkipped(i, log[i], c)
                ELSE PrCatch(i, message, log[i], c, writes[i], 0, refs[i])

PrCommitReturned(i) ==
    /\ Quiet
    /\ pc[i] = "pr_commit"
    /\ \/ LET lg == Append(log[i], "$ git commit --no-verify")
              c == Done(cmds[i], "ok")
          IN  /\ "ok" \in env.results
              /\ IF ~opts.skipPush
                 THEN ContinueGit(i, "pr_push", lg, Issue(c, "git push", ProcessRepoPath(i)),
                                  writes[i], <<>>, 0, Committed(refs[i]))
                 ELSE PrSuccess(i, Append(lg, "[skip-push] Skipped pushing to remote"), c,
                                Committed(refs[i]))
       \/ \E message \in (IF "failed" \in env.results THEN CommitFailures ELSE {}) :
            LET c == Append(Done(cmds[i], "failed"),
                            [op |-> "commit failure", dir |-> ProcessRepoPath(i),
                             res |-> message])
            IN  IF isBenignCommitFailure(message)
                THEN PrSkipped(i, log[i], c)
                ELSE PrCatch(i, message, log[i], c, writes[i], 0, refs[i])

\* a variant that reports Success whatever git push returned
PrPushReturnedLenient(i) ==
    /\ Quiet
    /\ pc[i] = "pr_push"
    /\ \E res \in env.results :
        PrSuccess(i, Append(log[i], "$ git push --set-upstream origin --no-verify"),
                  Done(cmds[i], res), Pushed(refs[i], selected[i].branch))

PrPushReturned(i) ==
    /\ Quiet
    /\ pc[i] = "pr_push"
    /\ \E res \in env.results :
        IF res = "ok"
        THEN PrSuccess(i, Append(log[i], "$ git push --set-upstream origin --no-verify"),
                       Done(cmds[i], res), Pushed(refs[i], selected[i].branch))
        ELSE PrCatch(i, CmdErrorText("git push"), log[i], Done(cmds[i], res), writes[i], 0,
                     refs[i])

-----------------------------------------------------------------------------
(* handleRepos: one task, src/batch/batch.js 223-315 *)

\* a variant of the try block that leaves the dry-run check to processRepo
CallProcessRepoAlways(i, c, g) == ProcessRepoEntry(i, c, g)

\* the try block around processRepo: the dry-run record, or the call
CallProcessRepo(i, c, g) ==
    IF opts.dryRun
    THEN ContinueGit(i, "fulfilled", log[i], c, writes[i],
                     <<OkRecord(i, RepoName(i), JsTrue,
                                <<"Would", "run", "processRepo", "for", RepoName(i)>>)>>,
                     QuietIncrement, g)
    ELSE ProcessRepoEntry(i, c, g)

\* a variant that skips the fs.existsSync check of the directory
HrStartUnchecked(i) ==
    /\ mode \in {"install", "uninstall"}
    /\ Startable(i)
    /\ \E exists \in env.exists :
        LET checked == Did(cmds[i], "existsSync", RepoPath(i),
                           IF exists THEN "ok" ELSE "failed")
        IN  IF Truthy(selected[i].branch)
            THEN Continue(i, "hr_localBranchExists", log[i],
                          Issue(checked, "git show-ref", RepoPath(i)),
                          writes[i], <<>>, 0)
            ELSE CallProcessRepo(i, checked, refs[i])

\* from admission to the first await
HrStart(i) ==
    /\ mode \in {"install", "uninstall"}
    /\ Startable(i)
    /\ \E exists \in env.exists :
        LET checked == Did(cmds[i], "existsSync", RepoPath(i),
                           IF exists THEN "ok" ELSE "failed")
        IN  IF ~exists
            THEN Continue(i, "fulfilled", log[i], checked, writes[i],
                          <<FailRecord(i, RepoName(i),
                                       <<"Path", "not", "found:", RepoPath(i)>>)>>,
                          QuietIncrement)
            ELSE IF Truthy(selected[i].branch)
            THEN Continue(i, "hr_localBranchExists", log[i],
                          Issue(checked, "git show-ref", RepoPath(i)),
                          writes[i], <<>>, 0)
            ELSE CallProcessRepo(i, checked, refs[i])

HrLocalBranchReturned(i) ==
    /\ Quiet
    /\ pc[i] = "hr_localBranchExists"
    /\ LET res == ShowRef(refs[i])
           c == Done(cmds[i], res)
        IN  IF res = "ok"
            THEN CallProcessRepo(i, c, refs[i])
            ELSE IF opts.dryRun
            THEN Continue(i, "fulfilled", log[i], c, writes[i],
                          <<OkRecord(i, RepoName(i), JsTrue,
                                     <<"Would", "create", "branch", selected[i].branch,
                                       "after", "fetching", "remote", "refs">>)>>,
                          QuietIncrement)
            ELSE Continue(i, "eb_revParse", log[i],
                          Issue(c, "git rev-parse --verify", RepoPath(i)),
                          writes[i], <<>>, 0)

\* ensureBranchFromLocalMain: rev-parse, fetch origin, fetch origin main,
\* branch --force main origin/main, checkout --no-track -b <branch> main
EbRevParseReturned(i) ==
    /\ Quiet
    /\ pc[i] = "eb_revParse"
    /\ LET res == RevParse(refs[i])
       IN
        IF res = "ok"
        THEN CallProcessRepo(i, Done(cmds[i], res), refs[i])
        ELSE Continue(i, "eb_fetch", log[i],
                      Issue(Done(cmds[i], res), "git fetch origin", RepoPath(i)),
                      writes[i], <<>>, 0)

EbFetchReturned(i) ==
    /\ Quiet
    /\ pc[i] = "eb_fetch"
    /\ \E res \in env.ignored :
        ContinueGit(i, "eb_fetchMain", log[i],
                    Issue(Done(cmds[i], res), "git fetch origin main", RepoPath(i)),
                    writes[i], <<>>, 0,
                    IF res = "ok" THEN Fetched(refs[i]) ELSE refs[i])

EbFetchMainReturned(i) ==
    /\ Quiet
    /\ pc[i] = "eb_fetchMain"
    /\ \E res \in env.ignored :
        ContinueGit(i, "eb_branchForce", log[i],
                    Issue(Done(cmds[i], res), "git branch --force main origin/main", RepoPath(i)),
                    writes[i], <<>>, 0,
                    IF res = "ok" THEN FetchedMain(refs[i]) ELSE refs[i])

EbBranchForceReturned(i) ==
    /\ Quiet
    /\ pc[i] = "eb_branchForce"
    /\ LET res == BranchForce(refs[i])
       IN
        ContinueGit(i, "eb_checkout", log[i],
                    Issue(Done(cmds[i], res), "git checkout --no-track -b", RepoPath(i)),
                    writes[i], <<>>, 0,
                    IF res = "ok" THEN BranchForced(refs[i]) ELSE refs[i])

EbCheckoutReturned(i) ==
    /\ Quiet
    /\ pc[i] = "eb_checkout"
    /\ \E res \in env.results :
        IF res = "ok"
        THEN CallProcessRepo(i, Done(cmds[i], res), CheckedOutNew(refs[i]))
        ELSE Continue(i, "fulfilled", log[i], Done(cmds[i], res), writes[i],
                      <<FailRecord(i, RepoName(i),
                                   <<"branch", selected[i].branch, "still", "not",
                                     "present", "after", "attempted", "creation">>)>>,
                      QuietIncrement)

-----------------------------------------------------------------------------
(* sync: one task and the end of the run, src/sync.js 129-279 *)

\* a return inside the try block reports progress itself and the finally
\* block reports it again
ReturnInTry == 2 * QuietIncrement

SyStart(i) ==
    /\ mode = "sync"
    /\ Startable(i)
    /\ IF opts.dryRun
       THEN Continue(i, "fulfilled", log[i], cmds[i], writes[i],
                     <<[OkRecord(i, RepoName(i), JsTrue, NOTEXT) EXCEPT
                          !.cmds = <<"git fetch --prune", "git checkout", "git pull">>]>>,
                     QuietIncrement)
       ELSE \E exists \in env.exists :
            LET checked == Did(cmds[i], "existsSync", RepoPath(i),
                               IF exists THEN "ok" ELSE "failed")
            IN  IF ~exists
                THEN Continue(i, "fulfilled", log[i], checked, writes[i],
                              <<FailRecord(i, RepoName(i),
                                           <<"Path", "not", "found:", RepoPath(i)>>)>>,
                              QuietIncrement)
                ELSE Continue(i, "sy_fetch", log[i],
                              Issue(checked, "git fetch --prune", RepoPath(i)),
                              writes[i], <<>>, 0)

SyFetchReturned(i) ==
    /\ Quiet
    /\ pc[i] = "sy_fetch"
    /\ \E res \in env.results :
        IF res = "ok"
        THEN ContinueGit(i, "sy_checkout", log[i],
                         Issue(Done(cmds[i], res), "git checkout", RepoPath(i)),
                         writes[i], <<>>, 0, Fetched(refs[i]))
        ELSE Continue(i, "fulfilled", log[i], Done(cmds[i], res), writes[i],
                      <<FailRecord(i, RepoName(i),
                                   <<"fetch", "failed:">> \o CmdErrorText("git fetch"))>>,
                      ReturnInTry)

\* the branch is not present locally: sync does not create it
SyBranchAbsent(i, c) ==
    Continue(i, "fulfilled", log[i], c, writes[i],
             <<OkRecord(i, RepoName(i), UNDEF,
                        <<"fetched", "refs;", "branch", opts.branch, "not", "present", "locally">>)>>,
             ReturnInTry)

SyCheckoutReturned(i) ==
    /\ Quiet
    /\ pc[i] = "sy_checkout"
    /\ \E res \in (IF CanCheckout(refs[i], opts.branch) THEN env.results ELSE {"failed"}) :
        IF res = "ok"
        THEN ContinueGit(i, "sy_pull", log[i],
                         Issue(Done(cmds[i], res), "git pull", RepoPath(i)),
                         writes[i], <<>>, 0, CheckedOut(refs[i], opts.branch))
        ELSE IF opts.verbose
        THEN Continue(i, "sy_remotes", log[i],
                      Issue(Done(cmds[i], res), "git branch -r --list", RepoPath(i)),
                      writes[i], <<>>, 0)
        ELSE SyBranchAbsent(i, Done(cmds[i], res))

SyRemotesReturned(i) ==
    /\ Quiet
    /\ pc[i] = "sy_remotes"
    /\ \E res \in env.ignored : SyBranchAbsent(i, Done(cmds[i], res))

SyPullReturned(i) ==
    /\ Quiet
    /\ pc[i] = "sy_pull"
    /\ \E res \in (IF CanPull(refs[i], opts.branch) THEN env.results ELSE {"failed"}) :
        IF res = "ok"
        THEN ContinueGit(i, "fulfilled", log[i], Done(cmds[i], res), writes[i],
                         <<OkRecord(i, RepoName(i), UNDEF, NOTEXT)>>, QuietIncrement,
                         Pulled(refs[i], opts.branch))
        ELSE Continue(i, "fulfilled", log[i], Done(cmds[i], res), writes[i],
                      <<FailRecord(i, RepoName(i),
                                   <<"pull", "failed:">> \o CmdErrorText("git pull"))>>,
                      ReturnInTry)

\* a variant of the finally block that schedules exit(0) before exit(2)
syncFinishZeroFirst ==
    /\ mode = "sync"
    /\ FinishPending
    /\ phase' = "finished"
    /\ summary' = Append(summary, results)
    /\ scheduled' = IF Len(Filter(results, "notOk")) # 0
                    THEN scheduled \o <<0, 2>>
                    ELSE Append(scheduled, 0)
    /\ uncaught' = AnyRejected
    /\ UNCHANGED <<mode, opts, selected, env, refs, queue, activeCount, pc, log, cmds, writes,
                   results, bar, exitCode, unitIn, unitOut, config>>

\* the finally block of main: with a failure, exit(2) is scheduled and then,
\* in every case, exit(0)
syncFinish ==
    /\ mode = "sync"
    /\ FinishPending
    /\ phase' = "finished"
    /\ summary' = Append(summary, results)
    /\ scheduled' = IF Len(Filter(results, "notOk")) # 0
                    THEN scheduled \o <<2, 0>>
                    ELSE Append(scheduled, 0)
    /\ uncaught' = AnyRejected
    /\ UNCHANGED <<mode, opts, selected, env, refs, queue, activeCount, pc, log, cmds, writes,
                   results, bar, exitCode, unitIn, unitOut, config>>

-----------------------------------------------------------------------------
(* The end of a run *)

\* the failCheck handed to finishAndExit
FailCheckOf(m) == "statusError"

\* finishAndExit(bar, results, failCheck), run from the finally block that
\* follows await Promise.all(tasks): the summary is printed, checkResults
\* computes the exit code and process.exit is scheduled with setImmediate.
\* A TypeError raised by failCheck leaves the function before anything is
\* scheduled; a rejection of Promise.all is rethrown after the finally block.
finishAndExit ==
    /\ mode \in {"install", "uninstall", "exec"}
    /\ FinishPending
    /\ phase' = "finished"
    /\ summary' = Append(summary, results)
    /\ IF checkResultsThrows(results, FailCheckOf(mode))
       THEN /\ scheduled' = scheduled
            /\ uncaught' = TRUE
       ELSE /\ scheduled' = Append(scheduled, checkResults(results, FailCheckOf(mode)).exitCode)
            /\ uncaught' = AnyRejected
    /\ UNCHANGED <<mode, opts, selected, env, refs, queue, activeCount, pc, log, cmds, writes,
                   results, bar, exitCode, unitIn, unitOut, config>>

\* The process ends, once no promise continuation is left to run (a task the
\* limiter has admitted is called first).  The first setImmediate callback
\* calls process.exit.  A
\* rejected handler promise is an unhandled rejection: the runtime ends the
\* process with code 1 before the callback runs, or (runtimes that only warn)
\* lets the callback run, or the process end by itself with code 0.
ExitCodes ==
    IF uncaught
    THEN {1} \cup {IF scheduled # <<>> THEN Head(scheduled) ELSE 0}
    ELSE {Head(scheduled)}

ProcessExit ==
    /\ phase = "finished"
    /\ \A i \in Tasks : pc[i] # "admitted"
    /\ phase' = "exited"
    /\ \E code \in ExitCodes : exitCode' = code
    /\ UNCHANGED <<mode, opts, selected, env, refs, queue, activeCount, pc, log, cmds, writes,
                   results, bar, summary, scheduled, uncaught, unitIn, unitOut, config>>

-----------------------------------------------------------------------------
(* Specifications *)

\* the commands
Modes == {"install", "uninstall", "exec", "sync"}

\* the flags every command can be given
AnyOpts == [m \in Modes |-> OptsOf(m)]

\* the repositories an environment can hold at the start of a run
InitialRefs(environment) ==
    {RefsOf(kind, has) : kind \in environment.refKinds, has \in environment.remoteHas}

\* the repository of a descriptor that names no branch, in a run of a command
\* that takes the branch from the descriptor
PlainRefs == RefsOf("absent, on main", FALSE)

RunInit(modes, optsFor, fleets, environment) ==
    /\ mode \in modes
    /\ opts \in optsFor[mode]
    /\ selected \in fleets
    /\ env = environment
    /\ refs \in [Tasks -> InitialRefs(environment) \cup {PlainRefs}]
    /\ \A i \in Tasks : IF mode = "sync" \/ Truthy(selected[i].branch)
                         THEN refs[i] \in InitialRefs(environment)
                         ELSE refs[i] = PlainRefs
    /\ queue = Enqueued(selected)
    /\ activeCount = 0
    /\ pc = [i \in Tasks |-> "queued"]
    /\ log = [i \in Tasks |-> <<>>]
    /\ cmds = [i \in Tasks |-> <<>>]
    /\ writes = [i \in Tasks |-> <<>>]
    /\ results = <<>>
    /\ bar = 0
    /\ phase = "running"
    /\ summary = <<>>
    /\ scheduled = <<>>
    /\ uncaught = FALSE
    /\ exitCode = NoExit
    /\ unitIn = <<>>
    /\ unitOut = <<>>
    /\ config = Loaded(selected)

\* An environment: whether a checked directory can exist, what a command
\* whose result the code reads can answer, whether a log write can succeed,
\* what the stale-lock cleanup can find, what a command whose result the
\* code ignores can answer (the fetches), how a repository with an expected
\* branch can start, whether the remote can have that branch, and how the
\* command of an exec task can end.
\* Every answer, but no stale lock, the fetches succeed, and a repository
\* with an expected branch starts without it or with it while on main:
PlainEnv ==
    [exists |-> BOOLEAN, results |-> CmdResults, written |-> BOOLEAN,
     lockStates |-> {"none"}, ignored |-> {"ok"},
     refKinds |-> {"absent, on other", "present, on main"}, remoteHas |-> {FALSE},
     endings |-> {"exit", "signal", "overflow"}]

InstallInit == RunInit({"install"}, AnyOpts, Fleets(MaxRepos), PlainEnv)

InstallNext ==
    \/ Dispatch
    \/ \E i \in Tasks : HrStart(i)
    \/ \E i \in Tasks : HrLocalBranchReturned(i)
    \/ \E i \in Tasks : EbRevParseReturned(i)
    \/ \E i \in Tasks : EbFetchReturned(i)
    \/ \E i \in Tasks : EbFetchMainReturned(i)
    \/ \E i \in Tasks : EbBranchForceReturned(i)
    \/ \E i \in Tasks : EbCheckoutReturned(i)
    \/ \E i \in Tasks : PrCheckoutReturned(i)
    \/ \E i \in Tasks : PrNpmReturned(i)
    \/ \E i \in Tasks : PrAddReturned(i)
    \/ \E i \in Tasks : PrCommitReturned(i)
    \/ \E i \in Tasks : PrPushReturned(i)
    \/ finishAndExit
    \/ ProcessExit

InstallSpec == InstallInit /\ [][InstallNext]_vars

ExecInit == RunInit({"exec"}, AnyOpts, Fleets(MaxRepos), PlainEnv)

ExecNext ==
    \/ Dispatch
    \/ \E i \in Tasks : ExecStart(i)
    \/ \E i \in Tasks : ExecCmdReturned(i)
    \/ finishAndExit
    \/ ProcessExit

ExecSpec == ExecInit /\ [][ExecNext]_vars

\* the two handlers of src/batch/batch.js: install and exec runs
BatchInit == RunInit({"install", "exec"}, AnyOpts, Fleets(MaxRepos), PlainEnv)

BatchNext ==
    \/ InstallNext
    \/ \E i \in Tasks : ExecStart(i)
    \/ \E i \in Tasks : ExecCmdReturned(i)

BatchSpec == BatchInit /\ [][BatchNext]_vars

\* install and exec runs over two repositories of the same name
TwinInit == RunInit({"install", "exec"}, AnyOpts, {TwinFleet}, PlainEnv)

TwinNext ==
    \/ Dispatch
    \/ \E i \in Tasks : HrStart(i)
    \/ \E i \in Tasks : PrNpmReturned(i)
    \/ \E i \in Tasks : PrAddReturned(i)
    \/ \E i \in Tasks : PrCommitReturned(i)
    \/ \E i \in Tasks : PrPushReturned(i)
    \/ \E i \in Tasks : ExecStart(i)
    \/ \E i \in Tasks : ExecCmdReturned(i)
    \/ finishAndExit
    \/ ProcessExit

TwinSpec == TwinInit /\ [][TwinNext]_vars

SyncInit == RunInit({"sync"}, AnyOpts, Fleets(MaxRepos), PlainEnv)

SyncNext ==
    \/ Dispatch
    \/ \E i \in Tasks : SyStart(i)
    \/ \E i \in Tasks : SyFetchReturned(i)
    \/ \E i \in Tasks : SyCheckoutReturned(i)
    \/ \E i \in Tasks : SyRemotesReturned(i)
    \/ \E i \in Tasks : SyPullReturned(i)
    \/ syncFinish
    \/ ProcessExit

SyncSpec == SyncInit /\ [][SyncNext]_vars

\* Runs that fill the limiter: more repositories than slots, every task with
\* one awaited command.  The directories exist and the command fails: an
\* install --dry-run finds the branch absent, an exec command exits non-zero
\* (and its log is written or not), a sync fetch fails.
LimiterEnv ==
    [exists |-> {TRUE}, results |-> {"failed"}, written |-> BOOLEAN,
     lockStates |-> {"none"}, ignored |-> {"ok"},
     refKinds |-> {"absent, on main"}, remoteHas |-> {FALSE}, endings |-> {"exit"}]

LimiterOptsOf(m) ==
    [dryRun : {m = "install"}, skipPush : {FALSE}, parallel : BOOLEAN, verbose : {FALSE},
     branch : IF m = "sync" THEN {syncBranch} ELSE {UNDEF}]

LimiterInit ==
    RunInit({"install", "exec", "sync"}, [m \in Modes |-> LimiterOptsOf(m)],
            ServiceFleets(MaxQueued), LimiterEnv)

LimiterNext ==
    \/ Dispatch
    \/ \E i \in Tasks : HrStart(i)
    \/ \E i \in Tasks : HrLocalBranchReturned(i)
    \/ \E i \in Tasks : ExecStart(i)
    \/ \E i \in Tasks : ExecCmdReturned(i)
    \/ \E i \in Tasks : SyStart(i)
    \/ \E i \in Tasks : SyFetchReturned(i)
    \/ finishAndExit
    \/ syncFinish
    \/ ProcessExit

LimiterSpec == LimiterInit /\ [][LimiterNext]_vars

\* Branch resolution on its own: install and remove runs of repositories with
\* an expected branch, from every starting state of the repository, with the
\* remote having the branch or not and with fetches that succeed or fail.
\* The directories exist and the log writes succeed.
BranchEnv ==
    [exists |-> {TRUE}, results |-> CmdResults, written |-> {TRUE},
     lockStates |-> {"none"}, ignored |-> CmdResults,
     refKinds |-> RefKinds, remoteHas |-> BOOLEAN, endings |-> {"exit"}]

BranchOptsOf(m) ==
    [dryRun : BOOLEAN, skipPush : BOOLEAN, parallel : BOOLEAN, verbose : {FALSE},
     branch : {UNDEF}]

\* one repository: a task's git commands touch its own repository only
BranchInit ==
    RunInit({"install", "uninstall"}, [m \in Modes |-> BranchOptsOf(m)],
            {ServiceFleet(1)}, BranchEnv)

BranchSpec == BranchInit /\ [][InstallNext]_vars

\* Install runs over one repository with an expected branch, whose
\* .git/index.lock is absent, present and removable, or present and not removable
LockEnv ==
    [exists |-> {TRUE}, results |-> CmdResults, written |-> {TRUE},
     lockStates |-> LockStates, ignored |-> {"ok"},
     refKinds |-> {"absent, on main", "present, on main"}, remoteHas |-> {FALSE},
     endings |-> {"exit"}]

LockInit == RunInit({"install"}, AnyOpts, {ServiceFleet(1)}, LockEnv)

LockSpec == LockInit /\ [][InstallNext]_vars

\* Dry runs of install, remove and exec, from every starting state of the
\* repositories
DryRunEnv == [PlainEnv EXCEPT !.refKinds = RefKinds, !.remoteHas = BOOLEAN]

DryRunOptsOf(m) ==
    [dryRun : {TRUE}, skipPush : BOOLEAN, parallel : BOOLEAN, verbose : {FALSE},
     branch : {UNDEF}]

DryRunInit ==
    RunInit({"install", "uninstall", "exec"}, [m \in Modes |-> DryRunOptsOf(m)],
            Fleets(MaxRepos), DryRunEnv)

DryRunNext ==
    \/ Dispatch
    \/ \E i \in Tasks : HrStart(i)
    \/ \E i \in Tasks : HrLocalBranchReturned(i)
    \/ \E i \in Tasks : ExecStart(i)
    \/ finishAndExit
    \/ ProcessExit

DryRunSpec == DryRunInit /\ [][DryRunNext]_vars

\* checkResults on its own: every result list of up to MaxResults records,
\* with a failCheck that is defined on each of them
SampleRecords(kind) ==
    {StatusRecord(0, "web", STATUS_SUCCESS, <<"Committed">>),
     StatusRecord(0, "api", STATUS_ERROR, <<"Command", "failed">>)}
    \cup (IF kind = "notOk"
          THEN {OkRecord(0, "web", UNDEF, NOTEXT), FailRecord(0, "api", <<"pull", "failed">>)}
          ELSE {})

ResultLists(kind) ==
    UNION {[1..n -> SampleRecords(kind)] : n \in 0..MaxResults}

UnitInit ==
    /\ mode = "unit"
    /\ opts = [dryRun |-> FALSE, skipPush |-> FALSE, parallel |-> FALSE, verbose |-> FALSE,
               branch |-> UNDEF]
    /\ selected = <<>>
    /\ env = PlainEnv
    /\ refs = <<>>
    /\ queue = <<>>
    /\ activeCount = 0
    /\ pc = <<>>
    /\ log = <<>>
    /\ cmds = <<>>
    /\ writes = <<>>
    /\ results = <<>>
    /\ bar = 0
    /\ phase = "unit"
    /\ summary = <<>>
    /\ scheduled = <<>>
    /\ uncaught = FALSE
    /\ exitCode = NoExit
    /\ \E kind \in FailChecks : \E rs \in ResultLists(kind) :
            unitIn = [fn |-> "checkResults", results |-> rs, failCheck |-> kind]
    /\ unitOut = <<>>
    /\ config = Loaded(<<>>)

\* checkResults(results, failCheck) is called and returns
CallCheckResults ==
    /\ mode = "unit"
    /\ unitIn.fn = "checkResults"
    /\ unitOut = <<>>
    /\ unitOut' = <<checkResults(unitIn.results, unitIn.failCheck)>>
    /\ UNCHANGED <<mode, opts, selected, env, refs, queue, activeCount, pc, log, cmds, writes,
                   results, bar, phase, summary, scheduled, uncaught, exitCode, unitIn, config>>

UnitNext == CallCheckResults

UnitSpec == UnitInit /\ [][UnitNext]_vars

\* The start of a handler, from its call to the creation of its tasks
\* (handleRepos 161-223, handleExec 324-346).  The CLI wrappers of loadConfig
\* and filterRepos call process.exit(1) on an error, and so does the handler
\* on an empty argument; otherwise every selected repository is enqueued with
\* the limiter.
ExitAtStart ==
    /\ phase' = "exited"
    /\ exitCode' = 1
    /\ UNCHANGED <<selected, refs, queue, pc, log, cmds, writes>>

Launch ==
    /\ phase = "starting"
    /\ LET loaded == loadConfig(config)
           filtered == filterRepos(loaded.repos, config.only)
           matched == filtered.matched
       IN  IF loaded.threw # "none" \/ ~config.argument \/ filtered.threw # "none"
           THEN ExitAtStart
           ELSE /\ selected' = matched
                /\ refs' \in [1..Len(matched) -> InitialRefs(env) \cup {PlainRefs}]
                /\ \A i \in 1..Len(matched) :
                      IF Truthy(matched[i].branch)
                      THEN refs'[i] \in InitialRefs(env)
                      ELSE refs'[i] = PlainRefs
                /\ queue' = Enqueued(matched)
                /\ pc' = [i \in 1..Len(matched) |-> "queued"]
                /\ log' = [i \in 1..Len(matched) |-> <<>>]
                /\ cmds' = [i \in 1..Len(matched) |-> <<>>]
                /\ writes' = [i \in 1..Len(matched) |-> <<>>]
                /\ phase' = "running"
                /\ exitCode' = exitCode
    /\ UNCHANGED <<mode, opts, env, activeCount, results, bar, summary, scheduled,
                   uncaught, unitIn, unitOut, config>>

\* what --only can be in the runs from the start: not given, empty, blank,
\* a name, a path, a name nobody has, a name and an unknown one
StartOnlyValues ==
    {NOTEXT, <<>>, <<Blank>>, <<"web">>, <<"pkgs/core">>, <<"nope">>,
     <<"web", Comma, "nope">>}

StartConfigs ==
    {ConfigOf(file, base, repositories, argument, only) :
        file \in {"parsed"}, base \in {basePath}, repositories \in RepoListsOf(MaxRepos),
        argument \in {TRUE}, only \in StartOnlyValues}
    \cup {ConfigOf(file, basePath, <<>>, TRUE, NOTEXT) : file \in {"unreadable", "invalid"}}
    \cup {ConfigOf("parsed", UNDEF, Fleet(1, 1), TRUE, NOTEXT),
          ConfigOf("parsed", basePath, Fleet(1, 1), FALSE, NOTEXT)}

\* install and exec handlers from their call
StartInit ==
    /\ mode \in {"install", "exec"}
    /\ opts \in AnyOpts[mode]
    /\ config \in StartConfigs
    /\ env = PlainEnv
    /\ selected = <<>>
    /\ refs = <<>>
    /\ queue = <<>>
    /\ activeCount = 0
    /\ pc = <<>>
    /\ log = <<>>
    /\ cmds = <<>>
    /\ writes = <<>>
    /\ results = <<>>
    /\ bar = 0
    /\ phase = "starting"
    /\ summary = <<>>
    /\ scheduled = <<>>
    /\ uncaught = FALSE
    /\ exitCode = NoExit
    /\ unitIn = <<>>
    /\ unitOut = <<>>

StartNext ==
    \/ Launch
    \/ BatchNext

StartSpec == StartInit /\ [][StartNext]_vars

\* filterRepos on its own: every repository list of up to MaxRepos catalog
\* descriptors, the empty list included, with every --only value of up to
\* MaxOnly fragments
Fragments == {"lib", "pkgs/core", "web", "nope", Comma, Blank}

OnlyValues == {NOTEXT} \cup UNION {[1..n -> Fragments] : n \in 0..MaxOnly}

RepoLists == RepoListsOf(MaxRepos)

\* a pure function of the utilities is about to be called with an input
PureInit(inputs) ==
    /\ mode = "unit"
    /\ opts = [dryRun |-> FALSE, skipPush |-> FALSE, parallel |-> FALSE, verbose |-> FALSE,
               branch |-> UNDEF]
    /\ selected = <<>>
    /\ env = PlainEnv
    /\ refs = <<>>
    /\ queue = <<>>
    /\ activeCount = 0
    /\ pc = <<>>
    /\ log = <<>>
    /\ cmds = <<>>
    /\ writes = <<>>
    /\ results = <<>>
    /\ bar = 0
    /\ phase = "unit"
    /\ summary = <<>>
    /\ scheduled = <<>>
    /\ uncaught = FALSE
    /\ exitCode = NoExit
    /\ unitIn \in inputs
    /\ unitOut = <<>>
    /\ config = Loaded(<<>>)

FilterInit ==
    PureInit({[fn |-> "filterRepos", repos |-> rs, only |-> o] :
                 rs \in RepoLists, o \in OnlyValues})

\* filterRepos(repos, only) is called and returns, or throws
CallFilterRepos ==
    /\ mode = "unit"
    /\ unitIn.fn = "filterRepos"
    /\ unitOut = <<>>
    /\ unitOut' = <<filterRepos(unitIn.repos, unitIn.only)>>
    /\ UNCHANGED <<mode, opts, selected, env, refs, queue, activeCount, pc, log, cmds, writes,
                   results, bar, phase, summary, scheduled, uncaught, exitCode, unitIn, config>>

FilterNext == CallFilterRepos

FilterSpec == FilterInit /\ [][FilterNext]_vars

\* runCmd on its own: every way a child can end, with and without output
Outputs == {<<>>, <<"some", "output">>}

Children ==
    {ChildOf("exit", code, out, err) : code \in {"0", "1", "127"}, out \in Outputs, err \in Outputs}
    \cup {ChildOf("signal", NoCode, out, err) : out \in Outputs, err \in Outputs}
    \cup {ChildOf("overflow", MAXBUFFER, out, err) : out \in Outputs, err \in Outputs}
    \cup {ChildOf("spawn", "ENOENT", <<>>, <<>>), ChildOf("throw", UNDEF, NOTEXT, NOTEXT)}

RunCmdInit ==
    PureInit({[fn |-> "runCmd", cmd |-> c, child |-> ch, copy |-> cp] :
                 c \in {"make", "npm test"}, ch \in Children, cp \in {"utils", "sync"}})

\* runCmd(cmd, execOpts) is called and its promise settles
CallRunCmd ==
    /\ mode = "unit"
    /\ unitIn.fn = "runCmd"
    /\ unitOut = <<>>
    /\ unitOut' = <<runCmd(unitIn.cmd, unitIn.child, unitIn.copy)>>
    /\ UNCHANGED <<mode, opts, selected, env, refs, queue, activeCount, pc, log, cmds, writes,
                   results, bar, phase, summary, scheduled, uncaught, exitCode, unitIn, config>>

RunCmdNext == CallRunCmd

RunCmdSpec == RunCmdInit /\ [][RunCmdNext]_vars


\* Sync runs over one repository, from every starting state of its branches
\* (the branch name being a branch or nothing, never a tag), with the remote
\* having the branch or not
SyncRefEnv ==
    [exists |-> BOOLEAN, results |-> CmdResults, written |-> {TRUE},
     lockStates |-> {"none"}, ignored |-> CmdResults,
     refKinds |-> RefKinds \ {"tag only, on main"}, remoteHas |-> BOOLEAN,
     endings |-> {"exit"}]

SyncRefInit == RunInit({"sync"}, AnyOpts, {ServiceFleet(1)}, SyncRefEnv)

SyncRefSpec == SyncRefInit /\ [][SyncNext]_vars


\* Parallel install and exec runs that fill the limiter, in which the command
\* of one task never returns.  Every continuation that needs no command
\* completion runs, and the command of every task but the hung one returns.
HungTask == 1

HungInit ==
    /\ LimiterInit
    /\ mode \in {"install", "exec"}
    /\ opts.parallel

HungNext ==
    \/ Dispatch
    \/ \E i \in Tasks : HrStart(i)
    \/ \E i \in Tasks \ {HungTask} : HrLocalBranchReturned(i)
    \/ \E i \in Tasks : ExecStart(i)
    \/ \E i \in Tasks \ {HungTask} : ExecCmdReturned(i)
    \/ finishAndExit
    \/ ProcessExit

\* every continuation moves a task or the phase of the run
progress == <<pc, queue, phase>>

HungSpec == HungInit /\ [][HungNext]_vars /\ WF_progress(HungNext)


\* Install and remove runs over one repository, each descriptor of the catalog
\* in turn
PipelineInit == RunInit({"install", "uninstall"}, AnyOpts, Fleets(1), PlainEnv)

PipelineSpec == PipelineInit /\ [][InstallNext]_vars


\* Runs that fill the limiter in which every command returns and every
\* continuation that can run does run
TerminationSpec == LimiterInit /\ [][LimiterNext]_vars /\ WF_progress(LimiterNext)

\* runs of every command
Init == RunInit({"install", "exec", "sync"}, AnyOpts, Fleets(MaxRepos), PlainEnv)

Next ==
    \/ Dispatch
    \/ \E i \in Tasks : HrStart(i)
    \/ \E i \in Tasks : HrLocalBranchReturned(i)
    \/ \E i \in Tasks : EbRevParseReturned(i)
    \/ \E i \in Tasks : EbFetchReturned(i)
    \/ \E i \in Tasks : EbFetchMainReturned(i)
    \/ \E i \in Tasks : EbBranchForceReturned(i)
    \/ \E i \in Tasks : EbCheckoutReturned(i)
    \/ \E i \in Tasks : PrCheckoutReturned(i)
    \/ \E i \in Tasks : PrNpmReturned(i)
    \/ \E i \in Tasks : PrAddReturned(i)
    \/ \E i \in Tasks : PrCommitReturned(i)
    \/ \E i \in Tasks : PrPushReturned(i)
    \/ \E i \in Tasks : ExecStart(i)
    \/ \E i \in Tasks : ExecCmdReturned(i)
    \/ \E i \in Tasks : SyStart(i)
    \/ \E i \in Tasks : SyFetchReturned(i)
    \/ \E i \in Tasks : SyCheckoutReturned(i)
    \/ \E i \in Tasks : SyRemotesReturned(i)
    \/ \E i \in Tasks : SyPullReturned(i)
    \/ finishAndExit
    \/ syncFinish
    \/ ProcessExit

Spec == Init /\ [][Next]_vars

-----------------------------------------------------------------------------
(* Properties *)

\* the records of the result list that task i appended
RecordsOf(i) == {k \in 1..Len(results) : results[k].task = i}

RecordOf(i) == results[CHOOSE k \in RecordsOf(i) : TRUE]

\* an outcome that reports a failure, in either record shape
IsErrorOutcome(r) == Includes(r.status, <<"Error">>) \/ r.ok = JsFalse

InstallRun == mode \in {"install", "uninstall"}

\* the task's function has been called
Started(i) == pc[i] \notin {"queued", "admitted"}

\* C1: outcome completeness for install/remove.  No task ever has two records
\* in the result list, a settled task has exactly one, and once all tasks have
\* settled the list has one record per selected repository, whichever events
\* the tasks met (path missing, dry run, branch absent, branch creation
\* failure, npm failure, commit failures, push failure, log-write exception).
OutcomeCompleteness ==
    InstallRun =>
        /\ \A i \in Tasks : Cardinality(RecordsOf(i)) <= 1
        /\ \A i \in Tasks : IsSettled(pc[i]) => Cardinality(RecordsOf(i)) = 1
        /\ AllSettled => Len(results) = Len(selected)

\* a finished install of two repositories: one whose log writes all threw
\* (recorded by the task boundary) and one that was skipped
OutcomeCompletenessWitness ==
    /\ mode = "install"
    /\ AllSettled
    /\ Len(selected) = 2
    /\ \E k \in 1..Len(results) : results[k].error = WriteErrorText
    /\ \E k \in 1..Len(results) : results[k].status = STATUS_SKIPPED

\* C2: task-boundary error capture in exec mode.  No exec task's promise ever
\* rejects, the handler's promise does not reject, and a settled task whose
\* log write threw has exactly one record, an Error outcome.
ExecErrorsCaptured ==
    mode = "exec" =>
        /\ \A i \in Tasks : pc[i] # "rejected"
        /\ ~uncaught
        /\ \A i \in Tasks :
             (IsSettled(pc[i]) /\ \E k \in 1..Len(writes[i]) : ~writes[i][k].ok)
                 => /\ Cardinality(RecordsOf(i)) = 1
                    /\ RecordOf(i).status = STATUS_ERROR

\* C3: the exit-status decision waits for all tasks.  In install/remove and
\* exec runs, once finishAndExit has run (the summary is printed, the exit code
\* computed) every task has settled: none was queued, admitted or running.
DecisionWaitsForAllTasks ==
    (mode \in {"install", "uninstall", "exec"} /\ phase # "running") => AllSettled

\* C4: exit-code law for install/remove.  The process exits with code 2 when
\* at least one outcome is an error and with code 0 when every outcome is
\* Success, Skipped or DryRun, also for outcomes produced before processRepo
\* is called.
InstallExitCodeLaw ==
    (InstallRun /\ phase = "exited") =>
        exitCode = IF \E k \in 1..Len(results) : IsErrorOutcome(results[k]) THEN 2 ELSE 0

\* the exec command of task i failed, or its path was missing
ExecFailed(i) ==
    \E k \in 1..Len(cmds[i]) :
        cmds[i][k].op \in {"exec", "existsSync"} /\ cmds[i][k].res = "failed"

\* C5: exit-code law for exec.  The process exits with code 2 when at least
\* one repository's command failed or its path was missing, and with code 0
\* otherwise; a failed command gives that repository an Error outcome.
ExecExitCodeLaw ==
    (mode = "exec" /\ phase = "exited") =>
        /\ exitCode = IF \E i \in Tasks : ExecFailed(i) THEN 2 ELSE 0
        /\ \A i \in Tasks : (IsSettled(pc[i]) /\ ExecFailed(i)) =>
               \E k \in RecordsOf(i) : results[k].status = STATUS_ERROR

\* the indices of the input records that satisfy the failCheck
Satisfying == {k \in 1..Len(unitIn.results) : FailCheck(unitIn.failCheck, unitIn.results[k])}

\* C6: checkResults returns failed equal to exactly the results that satisfy
\* failCheck, in their order (the j-th failed record is the j-th satisfying
\* input record), and exitCode 2 when that list is non-empty, 0 when empty.
CheckResultsContract ==
    (mode = "unit" /\ unitOut # <<>>) =>
        LET out == unitOut[1]
        IN  /\ Len(out.failed) = Cardinality(Satisfying)
            /\ \A j \in 1..Len(out.failed) :
                 \E k \in Satisfying :
                    /\ Cardinality({m \in Satisfying : m < k}) = j - 1
                    /\ out.failed[j] = unitIn.results[k]
            /\ out.exitCode = IF Satisfying = {} THEN 0 ELSE 2

\* checkResults returned two failures out of three records, the first record
\* not a failure
CheckResultsContractWitness ==
    /\ mode = "unit"
    /\ unitOut # <<>>
    /\ Len(unitIn.results) = 3
    /\ 1 \notin Satisfying
    /\ Len(unitOut[1].failed) = 2
    /\ unitOut[1].exitCode = 2

\* an entry of a task's history that is an operation on a directory
IsOperation(e) == e.op # "commit failure"

\* C7: working-directory isolation.  Every operation a task issues (path
\* check, branch check, branch creation, npm, git add/commit/push, exec
\* command) carries the task's one resolved repository path, the path that
\* was checked, for every descriptor and every interleaving.
WorkingDirectoryIsolation ==
    \A i \in Tasks : \A k \in 1..Len(cmds[i]) :
        IsOperation(cmds[i][k]) => cmds[i][k].dir = RepoPath(i)

\* C8: concurrency ceiling.  At every moment of an install/remove, exec or
\* sync run, at most 5 tasks have started and not settled with --parallel, and
\* at most 1 without.
ConcurrencyCeiling ==
    Cardinality(Running) <= (IF opts.parallel THEN 5 ELSE 1)

\* five tasks are running in parallel mode while a sixth waits in the queue
ConcurrencyCeilingWitness ==
    /\ opts.parallel
    /\ Cardinality({i \in Tasks : Started(i) /\ ~IsSettled(pc[i])}) = 5
    /\ queue # <<>>

\* C9: FIFO admission.  Tasks are admitted and started in the order of the
\* selected list: a task is never admitted or started before the task of a
\* preceding repository; and once tasks run, no slot is free while a task is
\* queued (a queued task is admitted as soon as a slot frees).
FifoAdmission ==
    /\ \A i, j \in Tasks : (i < j /\ pc[j] # "queued") => pc[i] # "queued"
    /\ \A i, j \in Tasks : (i < j /\ Started(j)) => Started(i)
    /\ (\E i \in Tasks : Started(i)) =>
           (queue = <<>> \/ Cardinality(Running) = (IF opts.parallel THEN 5 ELSE 1))

\* a task beyond the first slots runs after an earlier task settled, and
\* another task is still queued
FifoAdmissionWitness ==
    \E i, j \in Tasks :
        /\ pc[i] = "fulfilled"
        /\ j > (IF opts.parallel THEN 5 ELSE 1)
        /\ Started(j)
        /\ ~IsSettled(pc[j])
        /\ queue # <<>>

\* the commit of task i failed, and what the failure said
CommitFailureEntries(i) == {k \in 1..Len(cmds[i]) : cmds[i][k].op = "commit failure"}

CommitFailed(i) == CommitFailureEntries(i) # {}

CommitFailureText(i) == cmds[i][CHOOSE k \in CommitFailureEntries(i) : TRUE].res

NamesBenignPhrase(text) ==
    \/ Includes(text, <<"nothing", "to", "commit">>)
    \/ Includes(text, <<"no", "changes", "added", "to", "commit">>)

PushAttempted(i) == \E k \in 1..Len(cmds[i]) : cmds[i][k].op = "git push"

\* a Skipped outcome leaves the exit code at 0: a run that exited with only
\* Success and Skipped outcomes exited with code 0
SkippedIsNoFailure ==
    (/\ phase = "exited"
     /\ \E k \in 1..Len(results) : results[k].status = STATUS_SKIPPED
     /\ \A k \in 1..Len(results) : results[k].status \in {STATUS_SUCCESS, STATUS_SKIPPED})
        => exitCode = 0

\* C10, as stated: a commit failure whose text contains "nothing to commit" or
\* "no changes added to commit" gives the outcome Skipped, with no push, and
\* the Skipped outcome leaves the exit code at 0; every other commit failure
\* gives an error outcome.
BenignSkipAlways ==
    /\ \A i \in Tasks : (IsSettled(pc[i]) /\ CommitFailed(i)) =>
           IF NamesBenignPhrase(CommitFailureText(i))
           THEN RecordOf(i).status = STATUS_SKIPPED /\ ~PushAttempted(i)
           ELSE IsErrorOutcome(RecordOf(i))
    /\ SkippedIsNoFailure

\* C10, amended: after a commit failure no push is attempted.  With a benign
\* failure text the outcome is Skipped when the log file is then written, and
\* an error outcome when writing the log throws; every other commit failure
\* gives an error outcome; a Skipped outcome leaves the exit code at 0.
BenignSkipClassification ==
    /\ \A i \in Tasks : (IsSettled(pc[i]) /\ CommitFailed(i)) =>
           /\ ~PushAttempted(i)
           /\ writes[i] # <<>>
           /\ IF NamesBenignPhrase(CommitFailureText(i)) /\ writes[i][1].ok
              THEN RecordOf(i).status = STATUS_SKIPPED
              ELSE IsErrorOutcome(RecordOf(i))
    /\ SkippedIsNoFailure

\* a run has exited with code 0 after a commit that failed with
\* "no changes added to commit" and was recorded as Skipped
BenignSkipClassificationWitness ==
    /\ phase = "exited"
    /\ exitCode = 0
    /\ \E i \in Tasks :
        /\ CommitFailed(i)
        /\ Includes(CommitFailureText(i), <<"no", "changes", "added", "to", "commit">>)
        /\ RecordOf(i).status = STATUS_SKIPPED

\* the task's path check found the directory
PathFound(i) ==
    \E k \in 1..Len(cmds[i]) : cmds[i][k].op = "existsSync" /\ cmds[i][k].res = "ok"

\* the dry-run outcome of task i: for exec a DRY RUN record that names the
\* command, for install/remove a record marked dryRun whose info says what
\* would run (the branch creation, or processRepo for the repository)
IsDryRunOutcome(i, r) ==
    IF mode = "exec"
    THEN r.status = STATUS_DRYRUN /\ r.message = <<"Would", "execute:", execCommand>>
    ELSE /\ r.dryRun = JsTrue
         /\ r.ok = JsTrue
         /\ \/ r.info = <<"Would", "run", "processRepo", "for", RepoName(i)>>
            \/ r.info = <<"Would", "create", "branch", selected[i].branch,
                          "after", "fetching", "remote", "refs">>

\* what a dry run does for every task, given the operations it may issue
DryRunDoes(allowed) ==
    opts.dryRun =>
        \A i \in Tasks :
            /\ \A k \in 1..Len(cmds[i]) : cmds[i][k].op \in allowed
            /\ writes[i] = <<>>
            /\ log[i] = <<>>
            /\ refs[i] = StartOf(refs[i])
            /\ (IsSettled(pc[i]) /\ PathFound(i)) =>
                   /\ Cardinality(RecordsOf(i)) = 1
                   /\ IsDryRunOutcome(i, RecordOf(i))

PresentAtStart(i) == refs[i].kind \in {"present, on main", "present, checked out"}

\* task i issued the operation, and the operation ended with the result
Issued(i, op) == \E k \in 1..Len(cmds[i]) : cmds[i][k].op = op

Ended(i, op, res) ==
    \E k \in 1..Len(cmds[i]) : cmds[i][k].op = op /\ cmds[i][k].res = res

\* C12: local existence wins.  When the expected branch exists locally at the
\* start of an install/remove task, the branch ref stays where it was or moves
\* to the task's own new commit on top of it: no step recreates, resets or
\* repoints the branch.
LocalExistenceWins ==
    \A i \in Tasks :
        PresentAtStart(i) =>
            refs[i].branch \in {LocalBranch, Append(LocalBranch, NewChange)}

\* the operations of branch resolution beyond the local existence check
ResolverSteps ==
    {"git rev-parse --verify", "git fetch origin", "git fetch origin main",
     "git branch --force main origin/main", "git checkout --no-track -b"}

\* branch resolution of task i has completed and nothing after it has run
ResolutionJustDone(i) ==
    \/ pc[i] = "pr_checkout" /\ cmds[i][Len(cmds[i])].res = "pending"
    \/ opts.dryRun /\ IsSettled(pc[i])

\* C13: branch-resolution idempotence.  When the expected branch exists
\* locally, branch resolution issues the local existence check only (no
\* rev-parse, fetch, branch or checkout) and leaves every ref as it was, so
\* that a resolution that follows starts from the same repository.
ResolutionIsIdempotent ==
    \A i \in Tasks :
        PresentAtStart(i) =>
            /\ \A k \in 1..Len(cmds[i]) : cmds[i][k].op \notin ResolverSteps
            /\ (pc[i] = "hr_localBranchExists" \/ ResolutionJustDone(i)) =>
                   refs[i] = StartOf(refs[i])

\* resolution of a repository whose branch is present, on main, has completed
\* in a run that goes on to processRepo
ResolutionIsIdempotentWitness ==
    \E i \in Tasks :
        /\ refs[i].kind = "present, on main"
        /\ ~opts.dryRun
        /\ ResolutionJustDone(i)
        /\ Ended(i, "git show-ref", "ok")

\* C14: fetch failure is a hard failure.  When the branch is absent locally
\* and fetching the remote refs fails, no branch creation is attempted (main
\* is not moved, no branch is checked out) and the repository's outcome is an
\* error.
FetchFailureIsHard ==
    \A i \in Tasks :
        Ended(i, "git fetch origin", "failed") =>
            /\ ~Issued(i, "git branch --force main origin/main")
            /\ ~Issued(i, "git checkout --no-track -b")
            /\ IsSettled(pc[i]) => IsErrorOutcome(RecordOf(i))

\* C15: remote-branch preference.  When the branch is absent locally and
\* origin/<branch> exists after the fetch, the local branch is created from
\* that remote branch and tracks it; the creation from main without tracking
\* happens only when the remote has no such branch.
RemoteBranchPreference ==
    \A i \in Tasks :
        /\ Issued(i, "git checkout --no-track -b") => refs[i].originBranch = NoCommit
        /\ (/\ refs[i].kind \in {"absent, on main", "absent, on other"}
            /\ refs[i].originBranch # NoCommit
            /\ ResolutionJustDone(i)
            /\ refs[i].branch # NoCommit)
               => refs[i].branch = refs[i].originBranch /\ refs[i].upstream

\* C16: no stale main.  Whenever the fallback creates the branch from local
\* main, the fetch of main and the update of main succeeded in the task and
\* local main equals the remote's main; after a failed fetch or update the
\* branch is not created from main.
NoStaleMain ==
    \A i \in Tasks :
        /\ Ended(i, "git checkout --no-track -b", "ok") =>
               /\ Ended(i, "git fetch origin main", "ok")
               /\ Ended(i, "git branch --force main origin/main", "ok")
               /\ refs[i].main = RemoteMain
        /\ (\/ Ended(i, "git fetch origin main", "failed")
            \/ Ended(i, "git branch --force main origin/main", "failed"))
               => ~Issued(i, "git checkout --no-track -b")

\* before its k-th operation, task i ran the operation op and it ended with res
Before(i, k, op, res) ==
    \E j \in 1..(k - 1) : cmds[i][j].op = op /\ cmds[i][j].res = res

\* branch resolution by handleRepos had completed successfully before the
\* k-th operation of task i: the branch was found, or it was created
ResolvedBefore(i, k) ==
    \/ Before(i, k, "git show-ref", "ok")
    \/ Before(i, k, "git rev-parse --verify", "ok")
    \/ Before(i, k, "git checkout --no-track -b", "ok")

\* C17: pipeline order within one repository.  No two steps of a task
\* overlap (only its last operation can be running); npm starts only after
\* branch resolution (for a repository with a branch: found or created by
\* handleRepos, then checked out by processRepo) has completed successfully;
\* git add starts only after npm succeeded, git commit only after git add
\* succeeded, git push only after the commit succeeded.
PipelineOrder ==
    InstallRun =>
        \A i \in Tasks : \A k \in 1..Len(cmds[i]) :
            /\ k < Len(cmds[i]) => cmds[i][k].res # "pending"
            /\ (cmds[i][k].op = "npm" /\ Truthy(selected[i].branch)) =>
                   /\ ResolvedBefore(i, k)
                   /\ Before(i, k, "git checkout -B", "ok")
            /\ cmds[i][k].op = "git checkout -B" => ResolvedBefore(i, k)
            /\ cmds[i][k].op = "git add" => Before(i, k, "npm", "ok")
            /\ cmds[i][k].op = "git commit" => Before(i, k, "git add", "ok")
            /\ cmds[i][k].op = "git push" => Before(i, k, "git commit", "ok")

\* a task whose branch was created by the resolver has reached the push
PipelineOrderWitness ==
    \E i \in Tasks :
        /\ Ended(i, "git checkout --no-track -b", "ok")
        /\ pc[i] = "pr_push"

\* the directory of task i was looked for and not found
PathMissing(i) == Ended(i, "existsSync", "failed")

\* the text of an Error outcome: message (exec) or error (install/remove)
ErrorTextOf(r) == IF r.error # NOTEXT THEN r.error ELSE r.message

IsSuccessOutcome(r) == r.status = STATUS_SUCCESS

\* C18: path-not-found handling in install/remove and exec.  A repository
\* whose resolved directory does not exist gets exactly one Error outcome,
\* whose text contains "Path not found"; its task is over at once, no command
\* was run for it and no log was written; the run goes on for the others.
PathNotFoundHandled ==
    \A i \in Tasks :
        PathMissing(i) =>
            /\ pc[i] = "fulfilled"
            /\ Cardinality(RecordsOf(i)) = 1
            /\ IsErrorOutcome(RecordOf(i))
            /\ Includes(ErrorTextOf(RecordOf(i)), <<"Path", "not", "found:">>)
            /\ Len(cmds[i]) = 1
            /\ writes[i] = <<>>
            /\ log[i] = <<>>

\* a repository without directory has its Error outcome and a sibling that
\* started after it ended in Success
PathNotFoundHandledWitness ==
    \E i, j \in Tasks :
        /\ i < j
        /\ PathMissing(i)
        /\ RecordsOf(i) # {}
        /\ RecordsOf(j) # {}
        /\ IsSuccessOutcome(RecordOf(j))

\* what task i itself met that makes an exec outcome an Error
ExecOwnFailure(i) == PathMissing(i) \/ Ended(i, "exec", "failed")

\* C19: failure isolation between repositories.  Whatever happens in other
\* repositories, the task of a repository runs to completion (the process
\* does not end while it is unsettled), it records exactly one outcome, and
\* the outcome is decided by its own path check and its own command (stated
\* for exec, where a single command decides).
FailureIsolation ==
    \A i \in Tasks :
        /\ phase = "exited" => IsSettled(pc[i])
        /\ pc[i] = "fulfilled" => Cardinality(RecordsOf(i)) = 1
        /\ (mode = "exec" /\ pc[i] = "fulfilled") =>
               (IsErrorOutcome(RecordOf(i)) <=> ExecOwnFailure(i))

\* the steps of processRepo up to the commit
StepsToCommit == {"git checkout -B", "npm", "git add", "git commit"}

IsStepToCommit(entry) == entry.op \in StepsToCommit

\* the steps up to the commit that task i ran, in order
StepsRun(i) ==
    LET steps == SelectSeq(cmds[i], IsStepToCommit)
    IN  [k \in 1..Len(steps) |-> steps[k].op]

\* the steps a repository runs up to the commit when nothing fails, flag or no flag
StepsWithoutFlag(i) ==
    (IF Truthy(selected[i].branch) THEN <<"git checkout -B">> ELSE <<>>)
        \o <<"npm", "git add", "git commit">>

HasSuccess(i) == RecordsOf(i) # {} /\ IsSuccessOutcome(RecordOf(i))

HasError(i) == RecordsOf(i) # {} /\ IsErrorOutcome(RecordOf(i))

\* the log file of task i was written without error
LogWritten(i) == writes[i] # <<>> /\ \A k \in 1..Len(writes[i]) : writes[i][k].ok

\* what C20 says whatever the log write does: no push with --skip-push, the
\* steps up to the commit as without the flag, Success only after the push
\* without the flag, an Error outcome after a failed push
SkipPushFrame(i) ==
    /\ opts.skipPush => ~Issued(i, "git push")
    /\ Ended(i, "git commit", "ok") => StepsRun(i) = StepsWithoutFlag(i)
    /\ (~opts.skipPush /\ HasSuccess(i)) => Ended(i, "git push", "ok")
    /\ (~opts.skipPush /\ Ended(i, "git push", "failed")) =>
           (pc[i] = "fulfilled" /\ HasError(i))

\* C20 as stated: skip-push.  With --skip-push no push is executed while the
\* steps up to the commit run as without the flag, and a repository whose
\* commit succeeded ends Success; without the flag Success comes only after a
\* successful push and a push failure gives Error.
SkipPushAsStated ==
    InstallRun =>
        \A i \in Tasks :
            /\ SkipPushFrame(i)
            /\ (opts.skipPush /\ Ended(i, "git commit", "ok")) => HasSuccess(i)

\* C20, amended: as stated, but a repository whose commit succeeded ends
\* Success when its log file could be written; when the log write throws it
\* ends with an Error outcome.
SkipPushLaw ==
    InstallRun =>
        \A i \in Tasks :
            /\ SkipPushFrame(i)
            /\ (opts.skipPush /\ Ended(i, "git commit", "ok")) =>
                   /\ pc[i] = "fulfilled"
                   /\ Cardinality(RecordsOf(i)) = 1
                   /\ IF LogWritten(i) THEN HasSuccess(i) ELSE HasError(i)

\* a repository with a branch committed under --skip-push and ended Success
\* without a push
SkipPushLawWitness ==
    \E i \in Tasks :
        /\ InstallRun
        /\ opts.skipPush
        /\ Truthy(selected[i].branch)
        /\ Ended(i, "git commit", "ok")
        /\ HasSuccess(i)
        /\ ~Issued(i, "git push")

\* the writes of task i that returned
WritesDone(i) == {k \in 1..Len(writes[i]) : writes[i][k].ok}

\* task i has concluded with an outcome of processRepo: Success, Skipped or Error
ConcludedInPipeline(i) ==
    pc[i] = "fulfilled" /\ RecordsOf(i) # {} /\ RecordOf(i).status # NOTEXT

FilesWritten(i) == {writes[i][k].file : k \in WritesDone(i)}

\* C22: distinct log files.  Within one run no two selected repositories
\* write to the same log file, whatever repository list the configuration
\* holds: the files written by two different tasks are disjoint.
DistinctLogFiles ==
    \A i, j \in Tasks : i # j => FilesWritten(i) \cap FilesWritten(j) = {}

\* the branch operations of a task: the local-branch check, the fetches, the
\* update of main and the checkouts
BranchOperations ==
    {"git show-ref", "git fetch origin", "git fetch origin main",
     "git branch --force main origin/main", "git checkout --no-track -b",
     "git checkout -B"}

\* C23: stale lock removed first.  In a non-dry-run install/remove task, a
\* leftover .git/index.lock that the task finds has been removed before the
\* task issues its first branch operation.
StaleLockRemovedFirst ==
    (InstallRun /\ ~opts.dryRun) =>
        \A i \in Tasks : \A k, j \in 1..Len(cmds[i]) :
            (cmds[i][k].op \in BranchOperations /\ cmds[i][j].op = "unlink index.lock")
                => (j < k /\ cmds[i][j].res = "ok")

\* filterRepos was called and returned a selection
FilterReturned ==
    /\ mode = "unit"
    /\ unitOut # <<>>
    /\ unitIn.fn = "filterRepos"
    /\ unitOut[1].threw = "none"

\* the entries of a filter: its maximal comma-free pieces, trimmed, the empty ones dropped
Entries(only) ==
    {Trim(SubSeq(only, a, b)) :
        <<a, b>> \in {ab \in (1..(Len(only) + 1)) \X (0..Len(only)) :
                        /\ ab[1] <= ab[2] + 1
                        /\ \A k \in ab[1]..ab[2] : only[k] # Comma
                        /\ ab[1] = 1 \/ only[ab[1] - 1] = Comma
                        /\ ab[2] = Len(only) \/ only[ab[2] + 1] = Comma}}
        \ {<<>>}

\* the positions of the repositories whose name or path is an entry
Named(repos, only) ==
    {k \in 1..Len(repos) :
        \/ repos[k].name # UNDEF /\ <<repos[k].name>> \in Entries(only)
        \/ repos[k].path # UNDEF /\ <<repos[k].path>> \in Entries(only)}

\* list holds exactly the repositories at the given positions, in their order
IsSelectionOf(list, repos, positions) ==
    /\ Len(list) = Cardinality(positions)
    /\ \A j \in 1..Len(list) :
          list[j] = repos[CHOOSE k \in positions :
                             Cardinality({m \in positions : m < k}) = j - 1]

\* C26: filterRepos selection.  With no filter (only is undefined) matched
\* is the repository list unchanged; with a filter it is exactly the
\* repositories whose name or path is one of the filter's trimmed non-empty
\* entries, each once, in configuration order.
FilterSelection ==
    FilterReturned =>
        IF unitIn.only = NOTEXT
        THEN unitOut[1].matched = unitIn.repos
        ELSE IsSelectionOf(unitOut[1].matched, unitIn.repos,
                           Named(unitIn.repos, unitIn.only))

\* the selection law holds for every filter that is not the empty string
FilterSelectionOfNonEmptyFilter ==
    (FilterReturned /\ unitIn.only # <<>>) =>
        IF unitIn.only = NOTEXT
        THEN unitOut[1].matched = unitIn.repos
        ELSE IsSelectionOf(unitOut[1].matched, unitIn.repos,
                           Named(unitIn.repos, unitIn.only))

\* the position of a repository that the entry selected, by name or by path
SelectedBy(entry, repos) ==
    {k \in 1..Len(repos) :
        (repos[k].name # UNDEF /\ entry = <<repos[k].name>>)
            \/ (repos[k].path # UNDEF /\ entry = <<repos[k].path>>)}

\* C27: filterRepos unmatched report.  The unknown list holds exactly the
\* filter entries that matched no repository, neither by name nor by path:
\* an entry that selected a repository is never reported as unknown.
UnknownAreUnmatched ==
    (FilterReturned /\ unitIn.only # NOTEXT) =>
        LET reported == {unitOut[1].unknown[k] : k \in 1..Len(unitOut[1].unknown)}
        IN  reported = {e \in Entries(unitIn.only) : SelectedBy(e, unitIn.repos) = {}}

\* C28: filterRepos never returns an empty selection for a given filter.
\* When a filter is supplied, filterRepos throws (the filter is blank after
\* trimming, or no repository matches) or returns a non-empty matched list.
FilterNeverSelectsNothing ==
    (mode = "unit" /\ unitOut # <<>> /\ unitIn.fn = "filterRepos"
        /\ unitIn.only # NOTEXT) =>
        /\ unitOut[1].threw = "none" => unitOut[1].matched # <<>>
        /\ Entries(unitIn.only) = {} => unitOut[1].threw = "FILTER_EMPTY"
        /\ (Entries(unitIn.only) # {} /\ Named(unitIn.repos, unitIn.only) = {})
               => unitOut[1].threw = "FILTER_NO_MATCH"

\* what C24 names a configuration error: the file cannot be read, is not
\* JSON or has no basePath, or --only is blank or matches no repository
IsConfigError(cfg) ==
    \/ cfg.file # "parsed"
    \/ ~Truthy(cfg.basePath)
    \/ /\ cfg.only # NOTEXT
       /\ Entries(cfg.only) = {} \/ Named(cfg.repositories, cfg.only) = {}

\* the handler has left its start: it exited or created its tasks
LeftStart == mode \in {"install", "uninstall", "exec"} /\ phase # "starting"

\* C24: configuration errors are fatal before dispatch.  When the
\* configuration file cannot be read, is not valid JSON or has no basePath,
\* or when --only is blank or matches no repository, the process exits with
\* a non-zero code, no task is created and no command is executed.
ConfigErrorsFatal ==
    (LeftStart /\ IsConfigError(config)) =>
        /\ phase = "exited"
        /\ exitCode = 1
        /\ selected = <<>>
        /\ results = <<>>

\* C25: an empty repository set aborts.  An install/remove or exec run whose
\* configuration lists no repositories, with no --only filter, exits with a
\* non-zero code before any task is dispatched and prints no summary.
EmptySetAborts ==
    (LeftStart /\ ~IsConfigError(config) /\ config.argument
        /\ config.repositories = <<>> /\ config.only = NOTEXT) =>
        /\ phase = "exited"
        /\ exitCode = 1
        /\ summary = <<>>

\* every configuration error other than an empty --only value is fatal
ConfigErrorsFatalOfNonEmptyFilter ==
    (LeftStart /\ config.only # <<>> /\ IsConfigError(config)) =>
        /\ phase = "exited"
        /\ exitCode = 1
        /\ selected = <<>>
        /\ results = <<>>

\* filterRepos throws or selects something for every filter that is not the
\* empty string
FilterNeverSelectsNothingOfNonEmptyFilter ==
    (mode = "unit" /\ unitOut # <<>> /\ unitIn.fn = "filterRepos"
        /\ unitIn.only # NOTEXT /\ unitIn.only # <<>>) =>
        /\ unitOut[1].threw = "none" => unitOut[1].matched # <<>>
        /\ Entries(unitIn.only) = {} => unitOut[1].threw = "FILTER_EMPTY"
        /\ (Entries(unitIn.only) # {} /\ Named(unitIn.repos, unitIn.only) = {})
               => unitOut[1].threw = "FILTER_NO_MATCH"

\* the child of a runCmd call ended as a success: it exited with status 0
ChildSucceeded(child) == child.kind = "exit" /\ child.code = "0"

\* C29: runCmd never raises.  However the child process ends (non-zero exit,
\* signal, spawn error, output overflow, an error thrown by exec), the promise
\* of runCmd fulfils with a result record; ok is true exactly when the
\* command succeeded, and when ok is false the error field holds the child's
\* stderr or, when that is empty, the message of the raised error.
RunCmdNeverRaises ==
    (mode = "unit" /\ unitOut # <<>> /\ unitIn.fn = "runCmd") =>
        LET out == unitOut[1]
            child == unitIn.child
        IN  /\ ~out.raised
            /\ out.ok <=> ChildSucceeded(child)
            /\ ~out.ok =>
                 /\ out.error # NOTEXT
                 /\ out.error # <<>>
                 /\ out.error = IF child.stderr \notin {<<>>, NOTEXT}
                                THEN child.stderr
                                ELSE ChildMessage(unitIn.cmd, child)

\* runCmd returned a failure record for an error that exec threw, its error
\* field taken from the message
RunCmdNeverRaisesWitness ==
    /\ mode = "unit"
    /\ unitOut # <<>>
    /\ unitIn.fn = "runCmd"
    /\ unitIn.child.kind = "throw"
    /\ ~unitOut[1].ok
    /\ unitOut[1].error = <<"The", "argument", "is", "invalid">>

\* how the command of exec task i ended, once it has
ExitStatusSeen(i) == {cmds[i][k].res : k \in {n \in 1..Len(cmds[i]) : cmds[i][n].op = "exit status"}}

\* the exit-code line of the log content of task i
ExitCodeLogged(i) == log[i][3]

\* the outcome and the log of exec task i agree with an end c of its command:
\* Success and "Exit code: 0" for exit status 0; otherwise Error and a
\* non-zero exit code, the command's own when it exited with one
AgreesWithExit(i, c) ==
    /\ RecordsOf(i) # {}
    /\ IF c = "0"
       THEN IsSuccessOutcome(RecordOf(i)) /\ ExitCodeLogged(i) = "Exit code: 0"
       ELSE /\ RecordOf(i).status = STATUS_ERROR
            /\ ExitCodeLogged(i) # "Exit code: 0"
            /\ c \notin {"signal", "overflow"} => ExitCodeLogged(i) = "Exit code: " \o c

\* C30: exec outcome and log agree with the exit status.  In a non-dry-run
\* exec task on an existing path, once the command has ended, the task has
\* one outcome, Success exactly when the command exited with status 0 and
\* Error otherwise, and the log file written for the repository records exit
\* code 0 exactly when the outcome is Success and the command's non-zero exit
\* code when it is Error.
ExecOutcomeAgreesWithExit ==
    mode = "exec" =>
        \A i \in Tasks : \A c \in ExitStatusSeen(i) :
            /\ pc[i] = "fulfilled"
            /\ Cardinality(RecordsOf(i)) = 1
            /\ LogWritten(i)
            /\ AgreesWithExit(i, c)

\* the agreement holds for every task whose log file could be written
ExecOutcomeAgreesWhenLogged ==
    mode = "exec" =>
        \A i \in Tasks : \A c \in ExitStatusSeen(i) :
            LogWritten(i) =>
                /\ pc[i] = "fulfilled"
                /\ Cardinality(RecordsOf(i)) = 1
                /\ AgreesWithExit(i, c)

\* the branch of the run existed locally when task i began
LocalAtStart(i) == LocalHead(StartOf(refs[i]), opts.branch) # NoCommit

\* C31: sync never creates a local branch.  In a sync task the set of local
\* branches stays what it was at the start; git pull is issued only after the
\* checkout of a branch that existed locally succeeded; and a task that
\* fetched and found the branch absent locally ends without a pull and
\* without an error.
SyncNeverCreatesBranch ==
    mode = "sync" =>
        \A i \in Tasks :
            /\ LocalBranches(refs[i]) = LocalBranches(StartOf(refs[i]))
            /\ Issued(i, "git pull") =>
                   Ended(i, "git checkout", "ok") /\ LocalAtStart(i)
            /\ (~LocalAtStart(i) /\ Ended(i, "git fetch --prune", "ok") /\ IsSettled(pc[i])) =>
                   /\ ~Issued(i, "git pull")
                   /\ \A k \in RecordsOf(i) : ~IsErrorOutcome(results[k])

\* the three parts of the law hold for every repository whose remote does not
\* have the branch
SyncNeverCreatesBranchWithoutRemote ==
    mode = "sync" =>
        \A i \in Tasks :
            refs[i].remoteBranch = NoCommit =>
                /\ LocalBranches(refs[i]) = LocalBranches(StartOf(refs[i]))
                /\ Issued(i, "git pull") =>
                       Ended(i, "git checkout", "ok") /\ LocalAtStart(i)
                /\ (~LocalAtStart(i) /\ Ended(i, "git fetch --prune", "ok")
                        /\ IsSettled(pc[i])) =>
                       /\ ~Issued(i, "git pull")
                       /\ \A k \in RecordsOf(i) : ~IsErrorOutcome(results[k])

\* the four statuses of a repository outcome
OutcomeStatuses == {STATUS_SUCCESS, STATUS_ERROR, STATUS_SKIPPED, STATUS_DRYRUN}

\* { repo | name, status, message } with a status of the four
HasOutcomeSchema(r) ==
    /\ Truthy(r.name) \/ Truthy(r.repo)
    /\ r.message # NOTEXT
    /\ r.status \in OutcomeStatuses

\* C32: uniform outcome schema.  Every record in the result list of an
\* install/remove or exec run names its repository, has a message and has a
\* status that is one of Success, Error, Skipped, DryRun.
UniformOutcomeSchema ==
    mode \in {"install", "uninstall", "exec"} =>
        \A k \in 1..Len(results) : HasOutcomeSchema(results[k])

\* the records of exec runs and those processRepo appends have the schema
OutcomeSchemaOfStatusRecords ==
    \A k \in 1..Len(results) :
        (mode = "exec" \/ results[k].status # NOTEXT) => HasOutcomeSchema(results[k])

\* C33: a hung command blocks only its own slot.  In a parallel run in which
\* the command of one task never returns, every other selected
\* repository's task is admitted and settles.
HungBlocksOnlyItsSlot ==
    \A j \in (1..MaxQueued) \ {HungTask} : <>(j \notin Tasks \/ IsSettled(pc[j]))

\* every other task settles, unless a task of the run rejected
HungBlocksOnlyItsSlotUnlessRejected ==
    \A j \in (1..MaxQueued) \ {HungTask} :
        <>(j \notin Tasks \/ IsSettled(pc[j]) \/ AnyRejected)

\* branch resolution of task i reported success: the task went on to
\* processRepo, whose first command is issued and has not returned
ResolutionSucceeded(i) ==
    /\ Issued(i, "git show-ref")
    /\ pc[i] = "pr_checkout"
    /\ cmds[i][Len(cmds[i])].res = "pending"

\* C34: branch-resolution postcondition.  Whenever the branch resolution of
\* an install/remove task reports success, refs/heads/<branch> exists in the
\* repository, from every starting state of its refs and whatever the fetches
\* and the update of main answered.
BranchResolutionPostcondition ==
    InstallRun =>
        \A i \in Tasks : ResolutionSucceeded(i) => refs[i].branch # NoCommit

\* the postcondition holds for every repository in which the branch name is
\* not the name of a tag
BranchResolutionPostconditionWithoutTag ==
    InstallRun =>
        \A i \in Tasks :
            (ResolutionSucceeded(i) /\ ~refs[i].tag) => refs[i].branch # NoCommit

\* the steps of processRepo's pipeline, and the log entry each of them has
PipelineSteps == StepsToCommit \cup {"git push"}

LogEntryOf(op) ==
    IF op = "git checkout -B" THEN "$ git checkout -B"
    ELSE IF op = "npm" THEN "$ npm " \o mode
    ELSE IF op = "git add" THEN "$ git add package.json package-lock.json"
    ELSE IF op = "git commit" THEN "$ git commit --no-verify"
    ELSE "$ git push --set-upstream origin --no-verify"

InLog(i, entry) == \E k \in 1..Len(log[i]) : log[i][k] = entry

\* the log buffer of task i has been written to its file
Flushed(i) == \E k \in 1..Len(writes[i]) : writes[i][k].ok

\* the pipeline steps of task i that returned with the result
StepsEnded(i, res) ==
    {cmds[i][k].op : k \in {n \in 1..Len(cmds[i]) :
                               cmds[i][n].op \in PipelineSteps /\ cmds[i][n].res = res}}

\* C35: failing commands are retained in the log.  When the log of a
\* non-dry-run install/remove task is flushed, it has an entry for every
\* pipeline step the task attempted, whether the step succeeded or failed.
FailingCommandsRetained ==
    InstallRun =>
        \A i \in Tasks :
            Flushed(i) =>
                \A op \in StepsEnded(i, "ok") \cup StepsEnded(i, "failed") :
                    InLog(i, LogEntryOf(op))

\* the flushed log has an entry for every step that succeeded and for the
\* package-manager command also when it failed
SucceededCommandsRetained ==
    InstallRun =>
        \A i \in Tasks :
            Flushed(i) =>
                \A op \in StepsEnded(i, "ok") \cup (StepsEnded(i, "failed") \cap {"npm"}) :
                    InLog(i, LogEntryOf(op))

\* C36: Success implies that the whole pipeline succeeded.  A task of an
\* install/remove run has a Success outcome only if its branch checkout (for a
\* repository with a branch), its package-manager command, git add and git
\* commit all returned successfully, its push returned successfully or
\* --skip-push was given, and no step of its pipeline failed.
SuccessImpliesPipeline ==
    InstallRun =>
        \A i \in Tasks :
            HasSuccess(i) =>
                /\ Truthy(selected[i].branch) => Ended(i, "git checkout -B", "ok")
                /\ Ended(i, "npm", "ok")
                /\ Ended(i, "git add", "ok")
                /\ Ended(i, "git commit", "ok")
                /\ Ended(i, "git push", "ok") \/ opts.skipPush
                /\ StepsEnded(i, "failed") = {}

\* a task ended in Success after a checkout and a push
SuccessImpliesPipelineWitness ==
    /\ InstallRun
    /\ \E i \in Tasks :
        /\ HasSuccess(i)
        /\ Ended(i, "git checkout -B", "ok")
        /\ Ended(i, "git push", "ok")
        /\ ~opts.skipPush

\* a repository of the sync run failed
SyncFailed == \E k \in 1..Len(results) : results[k].ok = JsFalse

\* C37: sync exit code under double scheduling.  At the end of a sync run
\* with a failed repository the exit(2) callback is scheduled and then the
\* exit(0) callback, and the process exits with 2; with no failed repository
\* only exit(0) is scheduled and the process exits with 0.
SyncExitCodeLaw ==
    mode = "sync" =>
        /\ phase \in {"finished", "exited"} =>
               scheduled = (IF SyncFailed THEN <<2, 0>> ELSE <<0>>)
        /\ phase = "exited" => exitCode = (IF SyncFailed THEN 2 ELSE 0)

\* a sync run with a failed repository has exited with 2, both callbacks scheduled
SyncExitCodeLawWitness ==
    /\ mode = "sync"
    /\ phase = "exited"
    /\ SyncFailed
    /\ scheduled = <<2, 0>>
    /\ exitCode = 2

SettledTasks == {i \in Tasks : IsSettled(pc[i])}

\* the tasks that left the try block by a return: fetch failed, branch absent
\* locally, pull failed
ReturnedInTry ==
    {i \in SettledTasks : \E op \in {"git fetch --prune", "git checkout", "git pull"} :
                              Ended(i, op, "failed")}

\* C38: progress counted once per repository.  In a non-verbose sync run the
\* bar is incremented once for each repository whose task has settled: its
\* value never exceeds the number of selected repositories and equals it when
\* all tasks have settled.
ProgressCountedOnce ==
    (mode = "sync" /\ ~opts.verbose) =>
        /\ bar = Cardinality(SettledTasks)
        /\ bar <= Len(selected)
        /\ AllSettled => bar = Len(selected)

\* the bar counts a settled task once, and once more when the task left the
\* try block by a return
ProgressCountedTwiceOnReturn ==
    (mode = "sync" /\ ~opts.verbose) =>
        bar = Cardinality(SettledTasks) + Cardinality(ReturnedInTry)

\* C39: termination.  When every command and every file operation returns, a
\* run of install/remove, exec or sync terminates: every selected
\* repository's task settles, the summary is printed once and the process
\* exits, in sequential and in parallel mode, with fewer repositories than
\* slots, as many, and more.
RunTerminates ==
    <>(phase = "exited" /\ AllSettled /\ Len(summary) = 1)

\* every run prints the summary once and exits, and every task has settled
\* by then unless a task rejected
RunTerminatesUnlessRejected ==
    <>(phase = "exited" /\ Len(summary) = 1 /\ (AllSettled \/ AnyRejected))

====
